---- MODULE Spec2Model ----
(***************************************************************************)
(* A model of one reticulum node (the local node, "myself") and of the     *)
(* peers it talks to: the node records and their RPC clients, the          *)
(* placement ring, the upload/stash path, the announce path and the read   *)
(* path with its resize queue, rendition files and blob cache.             *)
(*                                                                         *)
(* Strings of the program that are taken apart (uuids, ring key inputs)    *)
(* are sequences of character codes: a digit d is the code d, a letter is  *)
(* a code >= 10.  An image hash and a ring key are numbers in              *)
(* 0..HashSpace-1 (the order of equal-length lowercase hex strings is the  *)
(* order of the numbers they write).                                       *)
(***************************************************************************)
EXTENDS Integers, Sequences, FiniteSets, TLC

(***************************************************************************)
(* Bounds of the model.                                                    *)
(***************************************************************************)
\* the clock runs from 1 to MaxTime; 0 is the zero time.Time of a fresh record
MaxTime == 2
\* the size of the digest space the ring keys and image hashes live in
HashSpace == 97
\* the workers of the resize pool
NumWorkers == 1

(***************************************************************************)
(* Program constants.                                                      *)
(***************************************************************************)
REPLICAS == 16

(***************************************************************************)
(* The uuids in play: "a" (the local node), "b" and "b1".                  *)
(***************************************************************************)
UA == <<10>>
UB == <<11>>
UC == <<11, 1>>
UUIDs == {UA, UB, UC}
Peers == {UB, UC}

\* the image hashes requests are drawn from
Hashes == {40, 96}

\* lexicographic order of two strings (uuid ascending)
RECURSIVE StrLess(_, _)
StrLess(s, t) ==
    IF t = <<>> THEN FALSE
    ELSE IF s = <<>> THEN TRUE
    ELSE IF Head(s) # Head(t) THEN Head(s) < Head(t)
    ELSE StrLess(Tail(s), Tail(t))

(***************************************************************************)
(* Node: what a node knows about one node (itself or another).             *)
(***************************************************************************)
NodeData(uuid, nickname, writeable, lastSeen) ==
    [Nickname |-> nickname, UUID |-> uuid, BaseUrl |-> "", Location |-> "",
     Writeable |-> writeable, LastSeen |-> lastSeen, LastFailed |-> 0]

\* fmt.Sprintf("%d", i) for 0 <= i < 100
Dec(i) == IF i < 10 THEN <<i>> ELSE <<i \div 10, i % 10>>

\* the digest of a string: a stand-in for SHA-1 with a small range, computed
\* character by character and mixing each one in, so that equal inputs have
\* equal digests and the digests of unequal inputs are scattered
Sha1(s) ==
    LET f[i \in 0..Len(s)] ==
            IF i = 0 THEN 7
            ELSE ((f[i - 1] + s[i] + 1) * (f[i - 1] + s[i] + 1) * 3
                    + f[i - 1] + s[i]) % HashSpace
    IN  f[Len(s)]

\* the input of the i-th ring key: fmt.Sprintf("%s%d", n.UUID, i)
KeyInput(uuid, i) == uuid \o Dec(i)

\* ring keys that leave the uuid out of the digest: every node gets the
\* same keys, which a placement by the nodes' own keys must tell apart
HashKeysOfIndex(n) == [i \in 1..REPLICAS |-> Sha1(Dec(i - 1))]

\* the REPLICAS ring keys of a node; keys[i] of the code is HashKeys(n)[i + 1]
HashKeys(n) == [i \in 1..REPLICAS |-> Sha1(KeyInput(n.UUID, i - 1))]

IsCurrent(n) == n.LastSeen > n.LastFailed

(***************************************************************************)
(* The answer of one HTTP round trip as the client sees it: a transport    *)
(* error (no response), or a response with a status and a body.            *)
(***************************************************************************)
NoBody == [kind |-> "none", h |-> 0, size |-> ""]
FullBytes(h) == [kind |-> "full", h |-> h, size |-> "full"]
TransportError == [err |-> TRUE, status |-> 0, body |-> NoBody]
HttpResponse(status, body) == [err |-> FALSE, status |-> status, body |-> body]

\* a RetrieveImage that marks the node seen only once the answer is known to
\* be "200 OK"
RetrieveImageSeenOnSuccess(n, resp, t) ==
    IF resp.err
    THEN [n |-> [n EXCEPT !.LastFailed = t], body |-> NoBody, err |-> TRUE]
    ELSE IF resp.status # 200
         THEN [n |-> n, body |-> NoBody, err |-> TRUE]
         ELSE [n |-> [n EXCEPT !.LastSeen = t], body |-> resp.body, err |-> FALSE]

\* NodeData.RetrieveImage on the record n at time t, given the round trip's
\* answer: the record afterwards, the bytes returned and whether err # nil
RetrieveImage(n, resp, t) ==
    IF resp.err
    THEN [n |-> [n EXCEPT !.LastFailed = t], body |-> NoBody, err |-> TRUE]
    ELSE LET seen == [n EXCEPT !.LastSeen = t]
         IN  IF resp.status # 200
             THEN [n |-> seen, body |-> NoBody, err |-> TRUE]
             ELSE [n |-> seen, body |-> resp.body, err |-> FALSE]

\* a Stash that records the failure time but leaves the Writeable flag as it
\* was: what the exclusion of a failed peer must tell apart from Stash
StashKeepsWriteable(n, resp, t) ==
    IF resp.err
    THEN [n |-> [n EXCEPT !.LastFailed = t], ok |-> FALSE]
    ELSE [n |-> [n EXCEPT !.LastSeen = t], ok |-> TRUE]

\* NodeData.Stash on the record n at time t, given the answer to the POST:
\* err is postFile's error, which http.Post sets for a transport error only
Stash(n, resp, t) ==
    IF resp.err
    THEN [n |-> [n EXCEPT !.LastFailed = t, !.Writeable = FALSE], ok |-> FALSE]
    ELSE [n |-> [n EXCEPT !.LastSeen = t], ok |-> TRUE]

(***************************************************************************)
(* The peer side of POST /stash/: StashHandler run by a node whose own     *)
(* record says writeable, on a request with the given method that does or  *)
(* does not carry the form file "image" with content hash h; store is the  *)
(* set of hashes whose full-size file the node holds.                      *)
(***************************************************************************)
StashHandler(writeable, method, hasImage, h, store) ==
    IF method # "POST" THEN [status |-> 400, store |-> store]
    ELSE IF ~writeable THEN [status |-> 400, store |-> store]
    ELSE IF ~hasImage THEN [status |-> 400, store |-> store]
    ELSE [status |-> 200, store |-> store \cup {h}]

VARIABLES
    now,            \* the clock: what time.Now() returns
    image,          \* the hash of the image the clients upload and request
    cfg,            \* the site configuration: Replication, MinReplication
    myself,         \* Cluster.Myself, the local node's record
    neighbors,      \* Cluster.Neighbors, the peer records, a slice
    peerUp,         \* per peer: whether a round trip to it gets a response
    peerWriteable,  \* per peer: the Writeable flag of the peer's own record
    peerDisk,       \* per peer: the hashes whose full-size file the peer holds
    disk,           \* the local upload directory: the content of each file
    up,             \* the upload request (POST /) being handled
    ann,            \* the announce requests (POST /announce/) being handled
    rq,             \* the read requests (GET /image/) being handled
    mc,             \* the blob cache (memcached): the value under each key
    resized,        \* the renditions a read request was answered with by a resize
    extension,      \* filepath.Ext of the file name the read requests ask for
    st,             \* the stash request (POST /stash/) being handled
    remote          \* the upload of the image that a peer is handling

vars == <<now, image, cfg, myself, neighbors, peerUp, peerWriteable, peerDisk, disk,
          up, ann, rq, mc, resized, extension, st, remote>>

\* what only the stash handler and the peers' uploads change
peerVars == <<st, remote>>

\* what the read path owns, and what it leaves alone
readVars == <<rq, mc, resized>>
nodeVars == <<cfg, myself, neighbors, peerUp, peerWriteable, peerDisk, up, ann>>

(***************************************************************************)
(* Ring (Cluster): placement.  The ring of a membership is the sorted list *)
(* of (vkey, uuid) pairs, equal vkeys ordered by uuid ascending.           *)
(***************************************************************************)
PairLess(p, q) == p[1] < q[1] \/ (p[1] = q[1] /\ StrLess(p[2], q[2]))

RECURSIVE SortPairs(_)
SortPairs(S) ==
    IF S = {} THEN <<>>
    ELSE LET m == CHOOSE p \in S : \A q \in S \ {p} : PairLess(p, q)
         IN  <<m>> \o SortPairs(S \ {m})

RingOf(S) ==
    SortPairs({<<HashKeys([UUID |-> u])[i], u>> : u \in S, i \in 1..REPLICAS})

\* the uuids of a sequence of pairs, each kept at its first occurrence
RECURSIVE EachOnce(_, _)
EachOnce(pairs, seen) ==
    IF pairs = <<>> THEN <<>>
    ELSE IF Head(pairs)[2] \in seen THEN EachOnce(Tail(pairs), seen)
    ELSE <<Head(pairs)[2]>> \o EachOnce(Tail(pairs), seen \cup {Head(pairs)[2]})

\* the walk of the ring clockwise from the smallest vkey >= h
RingWalk(ring, h) ==
    LET atOrAfter == {i \in 1..Len(ring) : ring[i][1] >= h}
        start == IF atOrAfter = {} THEN 1
                 ELSE CHOOSE i \in atOrAfter : \A j \in atOrAfter : i <= j
    IN  EachOnce(SubSeq(ring, start, Len(ring)) \o SubSeq(ring, 1, start - 1), {})

\* the walk from each hash over the ring of each membership, tabulated: the
\* keys depend on the uuids alone
RingTable ==
    {[S |-> S, h |-> h, order |-> RingWalk(RingOf(S), h)] :
        S \in SUBSET UUIDs, h \in Hashes}

\* the order in which the walk from h meets the nodes of membership S
RingOrder(S, h) == (CHOOSE r \in RingTable : r.S = S /\ r.h = h).order

\* find_by_uuid in the peer list ns; n is meaningful only when ok
FindIn(ns, uuid) ==
    LET at == {i \in 1..Len(ns) : ns[i].UUID = uuid}
    IN  IF at = {} THEN [ok |-> FALSE, n |-> NodeData(uuid, "", FALSE, 0)]
        ELSE [ok |-> TRUE, n |-> ns[CHOOSE i \in at : \A j \in at : i <= j]]

FindNeighborByUUID(uuid) == FindIn(neighbors, uuid)

\* add_peer: add if the uuid is not present
AddNeighbor(ns, n) ==
    IF \E i \in 1..Len(ns) : ns[i].UUID = n.UUID THEN ns ELSE Append(ns, n)

\* update_peer: overwrite the record with the matching uuid
UpdateNeighbor(ns, n) ==
    [i \in 1..Len(ns) |-> IF ns[i].UUID = n.UUID THEN n ELSE ns[i]]

\* the record a ring of local node me and peers ns holds for a member's uuid
RingNodeOf(me, ns, uuid) == IF uuid = me.UUID THEN me ELSE FindIn(ns, uuid).n

MembersOf(me, ns) == {me.UUID} \cup {ns[i].UUID : i \in 1..Len(ns)}

\* read_order(hash) of the ring of local node me and peers ns
ReadOrderOf(me, ns, h) ==
    LET order == RingOrder(MembersOf(me, ns), h)
    IN  [i \in 1..Len(order) |-> RingNodeOf(me, ns, order[i])]

\* a filter that keeps every node, read-only or not
IsAnyNode(n) == n.Writeable \/ ~n.Writeable

IsWriteable(n) == n.Writeable

\* write_order(hash): read_order(hash) filtered to the writeable nodes
WriteOrderOf(me, ns, h) == SelectSeq(ReadOrderOf(me, ns, h), IsWriteable)

\* the stash targets of an upload: write_order(hash) excluding myself
StashTargetsOf(me, ns, h) ==
    LET NotMyself(n) == n.UUID # me.UUID
    IN  SelectSeq(WriteOrderOf(me, ns, h), NotMyself)

\* the same of the ring as it is
RingNode(uuid) == RingNodeOf(myself, neighbors, uuid)
Members == MembersOf(myself, neighbors)
ReadOrder(h) == ReadOrderOf(myself, neighbors, h)
WriteOrder(h) == WriteOrderOf(myself, neighbors, h)
StashTargets(h) == StashTargetsOf(myself, neighbors, h)

\* a loop that goes through every target, whatever was reached
StashGoesOnToTheEnd(u) == u.i <= Len(u.W) /\ cfg.Replication >= 1

\* the loop of Ring.stash goes on: a target is left and the target
\* replication, which the local copy counts toward, is not reached
StashGoesOn(u) == u.i <= Len(u.W) /\ Len(u.nodes) < cfg.Replication - 1

(***************************************************************************)
(* BlobStore: the files of the upload directory.  A file is named by the   *)
(* hash whose directory it is in and by "full" or a size descriptor; its   *)
(* content is Absent (no such file), Empty (created, nothing written yet), *)
(* the uploaded bytes, or a completed encode of a rendition.               *)
(***************************************************************************)
Sizes == {"full", "100s"}
Files == Hashes \X Sizes
Absent == [kind |-> "absent", h |-> 0, size |-> ""]
Empty == [kind |-> "empty", h |-> 0, size |-> ""]
Encoded(h, size) == [kind |-> "enc", h |-> h, size |-> size]
FullPath(h) == <<h, "full">>
SizedPath(h, size) == <<h, size>>

\* img_contents, _ := ioutil.ReadFile(path): the error is dropped, and what
\* is used of a file that is not there is the empty slice
ReadFile(files, path) == IF files[path] = Absent THEN Empty ELSE files[path]

\* the file name extensions of the requests, as filepath.Ext gives them
Extensions ==
    {<<".", "j", "p", "g">>, <<".", "g", "i", "f">>, <<".", "p", "n", "g">>}

\* var extmimes: a key the map does not have gives the empty string
ExtMimes(ext) ==
    IF ext = <<"j", "p", "g">> THEN "image/jpeg"
    ELSE IF ext = <<"g", "i", "f">> THEN "image/gif"
    ELSE IF ext = <<"p", "n", "g">> THEN "image/png"
    ELSE ""

\* what http.Error sets
TextPlain == "text/plain; charset=utf-8"

\* the stash request and the upload at a peer, before they begin
NoStash ==
    [pc |-> "idle", method |-> "", hasImage |-> FALSE, upload |-> FALSE,
     status |-> 0, text |-> ""]
NoRemote == [pc |-> "none", at |-> <<>>]

(***************************************************************************)
(* The upload path: AddHandler, with the loop of Ring.stash one peer per   *)
(* step.                                                                   *)
(***************************************************************************)
NoUpload ==
    [pc |-> "idle", hash |-> 0, W |-> <<>>, i |-> 1, nodes |-> <<>>,
     status |-> 0, satisfied |-> FALSE]

\* the Satisfied field AddHandler computes from the list Ring.stash returned
Satisfied(nodes, minReplication) == Len(nodes) >= minReplication

\* what the POST /stash/ of a blob with hash h to peer u comes back with
StashRoundTrip(u, h) ==
    IF ~peerUp[u] THEN TransportError
    ELSE HttpResponse(
            StashHandler(peerWriteable[u], "POST", TRUE, h, peerDisk[u]).status,
            NoBody)

\* the key check fails: 403, nothing is read or written
AddHandlerForbidden ==
    /\ up.pc = "idle"
    /\ up' = [NoUpload EXCEPT !.pc = "done", !.status = 403]
    /\ UNCHANGED <<extension, peerVars, readVars,
                   now, image, cfg, myself, neighbors, peerUp,
                   peerWriteable, peerDisk, disk, ann>>

\* the body is hashed and written to the full-size path, and Ring.stash
\* takes its list of targets
AddHandlerBegin(h) ==
    /\ up.pc = "idle"
    /\ h = image
    /\ disk' = [disk EXCEPT ![FullPath(h)] = FullBytes(h)]
    /\ up' = [NoUpload EXCEPT !.pc = "stash", !.hash = h, !.W = StashTargets(h)]
    /\ UNCHANGED <<extension, peerVars, readVars,
                   now, image, cfg, myself, neighbors, peerUp,
                   peerWriteable, peerDisk, ann>>

\* one iteration of the loop: peer.stash(local_path) on the next target, the
\* peer's record written back to the ring
AddHandlerStash ==
    /\ up.pc = "stash"
    /\ StashGoesOn(up)
    /\ LET n == up.W[up.i]
           u == n.UUID
           r == Stash(n, StashRoundTrip(u, up.hash), now)
       IN  /\ neighbors' = UpdateNeighbor(neighbors, r.n)
           /\ peerDisk' =
                 IF peerUp[u]
                 THEN [peerDisk EXCEPT ![u] =
                         StashHandler(peerWriteable[u], "POST", TRUE, up.hash,
                                      peerDisk[u]).store]
                 ELSE peerDisk
           /\ up' = [up EXCEPT !.i = up.i + 1,
                               !.nodes = IF r.ok THEN Append(up.nodes, u)
                                         ELSE up.nodes]
    /\ UNCHANGED <<extension, peerVars, readVars,
                   now, image, cfg, myself, peerUp, peerWriteable,
                   disk, ann>>

\* Ring.stash returns and the JSON document is written
AddHandlerRespond ==
    /\ up.pc = "stash"
    /\ ~StashGoesOn(up)
    /\ up' = [up EXCEPT !.pc = "done", !.status = 200,
                        !.satisfied = Satisfied(up.nodes, cfg.MinReplication)]
    /\ UNCHANGED <<extension, peerVars, readVars,
                   now, image, cfg, myself, neighbors, peerUp,
                   peerWriteable, peerDisk, disk, ann>>

\* the request is over; the next upload may come
AddHandlerReturn ==
    /\ up.pc = "done"
    /\ up' = NoUpload
    /\ UNCHANGED <<extension, peerVars, readVars,
                   now, image, cfg, myself, neighbors, peerUp,
                   peerWriteable, peerDisk, disk, ann>>

(***************************************************************************)
(* The announce path: AnnounceHandler for a POST.  The lookup and the      *)
(* write-back are two calls on the ring, and other requests run between    *)
(* them.                                                                   *)
(***************************************************************************)
NumAnnouncers == 2
Announcers == 1..NumAnnouncers

\* the form fields of an announce; "" is a field the request does not carry
AnnounceForms ==
    [uuid : UUIDs, nickname : {""}, location : {""}, base_url : {""},
     writeable : {"", "true", "false"}]

NoForm ==
    [uuid |-> <<>>, nickname |-> "", location |-> "", base_url |-> "",
     writeable |-> ""]

NoAnnounce == [pc |-> "idle", form |-> NoForm, neighbor |-> myself]

\* the known-uuid branch: the fields present overwrite those of the record
\* FindNeighborByUUID gave, and LastSeen is now
Announced(neighbor, form, t) ==
    [neighbor EXCEPT
        !.Nickname = IF form.nickname # "" THEN form.nickname ELSE @,
        !.Location = IF form.location # "" THEN form.location ELSE @,
        !.BaseUrl = IF form.base_url # "" THEN form.base_url ELSE @,
        !.Writeable = IF form.writeable # "" THEN form.writeable = "true" ELSE @,
        !.LastSeen = t]

\* the unknown-uuid branch: the record built from the form
NewNeighbor(form, t) ==
    [Nickname |-> form.nickname, UUID |-> form.uuid, BaseUrl |-> form.base_url,
     Location |-> form.location, Writeable |-> (form.writeable = "true"),
     LastSeen |-> t, LastFailed |-> 0]

AnnounceHandlerFind(k, form) ==
    /\ ann[k].pc = "idle"
    /\ LET found == FindNeighborByUUID(form.uuid)
       IN  ann' = [ann EXCEPT ![k] =
                     [pc |-> IF found.ok THEN "update" ELSE "add",
                      form |-> form, neighbor |-> found.n]]
    /\ UNCHANGED <<extension, peerVars, readVars,
                   now, image, cfg, myself, neighbors, peerUp,
                   peerWriteable, peerDisk, disk, up>>

AnnounceHandlerUpdate(k) ==
    /\ ann[k].pc = "update"
    /\ neighbors' =
          UpdateNeighbor(neighbors, Announced(ann[k].neighbor, ann[k].form, now))
    /\ ann' = [ann EXCEPT ![k] = NoAnnounce]
    /\ UNCHANGED <<extension, peerVars, readVars,
                   now, image, cfg, myself, peerUp, peerWriteable,
                   peerDisk, disk, up>>

AnnounceHandlerAdd(k) ==
    /\ ann[k].pc = "add"
    /\ neighbors' = AddNeighbor(neighbors, NewNeighbor(ann[k].form, now))
    /\ ann' = [ann EXCEPT ![k] = NoAnnounce]
    /\ UNCHANGED <<extension, peerVars, readVars,
                   now, image, cfg, myself, peerUp, peerWriteable,
                   peerDisk, disk, up>>

\* the whole handler in one step: no other request runs between its lookup
\* and its write-back
AnnounceHandler(form) ==
    /\ LET found == FindNeighborByUUID(form.uuid)
       IN  neighbors' =
              IF found.ok
              THEN UpdateNeighbor(neighbors, Announced(found.n, form, now))
              ELSE AddNeighbor(neighbors, NewNeighbor(form, now))
    /\ UNCHANGED <<extension, peerVars, readVars,
                   now, image, cfg, myself, peerUp, peerWriteable,
                   peerDisk, disk, up, ann>>

\* time passes
Tick ==
    /\ now < MaxTime
    /\ now' = now + 1
    /\ UNCHANGED <<extension, peerVars, readVars, image, cfg, myself, neighbors, peerUp,
                   peerWriteable, peerDisk, disk, up, ann>>

(***************************************************************************)
(* The read path: ServeImageHandler for GET /image/<hash>/<size>/<file>,   *)
(* one step per access to what the requests share (the blob cache, the     *)
(* files, the peers, the resize queue).                                    *)
(***************************************************************************)
NumReaders == 2
Readers == 1..NumReaders

\* the read requests in flight at a time on a node that holds nothing of the
\* image: they share the blob cache and nothing else
MaxReadThroughs == 1
ReadThroughs == 1..MaxReadThroughs

\* memcache_key := ahash + "/" + size + "/image" + extension
MemcacheKey(h, size) == <<h, size>>

\* the bytes of a blob at a size: the upload itself, or its rendition
BlobBytes(h, size) == IF size = "full" THEN FullBytes(h) ELSE Encoded(h, size)

\* the reply of the resize worker
NoResult == [Success |-> FALSE, Magick |-> FALSE, codec |-> FALSE]

\* the last n.RetrieveImage of the loop of retrieveImage: the index in the
\* list, the answer, the time, the loop's copy of the record afterwards and
\* what the call returned
NoCall ==
    [idx |-> 0, resp |-> TransportError, t |-> 0, n |-> NodeData(<<>>, "", FALSE, 0),
     body |-> NoBody, err |-> FALSE]

NoRead ==
    [pc |-> "idle", size |-> "", order |-> <<>>, i |-> 1, contacted |-> <<>>,
     outcomes |-> <<>>, call |-> NoCall, img |-> NoBody, result |-> NoResult,
     late |-> FALSE, after |-> FALSE, via |-> "", status |-> 0, ctype |-> "",
     body |-> NoBody, job |-> "none"]

\* the Content-Type of an answer: none when the handler panicked and the
\* connection was closed; http.Error sets its own; the branch that
\* serves what magick wrote looks up extension, every other branch that
\* serves an image looks up extension[1:]
ContentType(via, status, ext) ==
    IF status = 0 THEN ""
    ELSE IF status # 200 THEN TextPlain
    ELSE IF via = "magick" THEN ExtMimes(ext)
    ELSE ExtMimes(Tail(ext))

\* the request is answered: w.Write / http.Error, and the handler returns
Answer(r, via, status, body) ==
    [r EXCEPT !.pc = "done", !.via = via, !.status = status, !.body = body,
              !.ctype = ContentType(via, status, extension)]

\* what answers a GET /retrieve/ at peer u for hash h at a size, as the
\* client sees it: no response when the peer is down; from RetrieveHandler,
\* 200 with the bytes or 500 ("could not resize image") when the peer holds
\* the blob, 404 when it does not; and a 2xx answer other than "200 OK" from
\* whatever else serves the peer's base_url
RetrieveAnswers(u, h, size) ==
    IF ~peerUp[u] THEN {TransportError}
    ELSE {HttpResponse(204, NoBody)} \cup
         (IF h \in peerDisk[u]
          THEN {HttpResponse(200, BlobBytes(h, size)), HttpResponse(500, NoBody)}
          ELSE {HttpResponse(404, NoBody)})

\* the request arrives
ServeBegin(k, size) ==
    /\ rq[k].pc = "idle"
    /\ rq' = [rq EXCEPT ![k] =
                [NoRead EXCEPT !.pc = "cache", !.size = size,
                               !.late = (<<image, size>> \in resized),
                               !.after = (remote.pc = "done")]]
    /\ UNCHANGED <<extension, peerVars, now, image, nodeVars, disk, mc, resized>>

\* ctx.MC.Get: a hit is served
ServeCacheGet(k) ==
    /\ rq[k].pc = "cache"
    /\ LET item == mc[MemcacheKey(image, rq[k].size)]
       IN  rq' = [rq EXCEPT ![k] =
                    IF item # Absent THEN Answer(@, "cache", 200, item)
                    ELSE [@ EXCEPT !.pc = "sized"]]
    /\ UNCHANGED <<extension, peerVars, now, image, nodeVars, disk, mc, resized>>

\* ioutil.ReadFile(sizedPath)
ServeReadSized(k) ==
    /\ rq[k].pc = "sized"
    /\ LET contents == disk[SizedPath(image, rq[k].size)]
       IN  rq' = [rq EXCEPT ![k] =
                    IF contents # Absent
                    THEN [@ EXCEPT !.pc = "sized_hit", !.img = contents]
                    ELSE [@ EXCEPT !.pc = "full"]]
    /\ UNCHANGED <<extension, peerVars, now, image, nodeVars, disk, mc, resized>>

\* the sized file was read: ctx.MC.Set and the contents are served
ServeSized(k) ==
    /\ rq[k].pc = "sized_hit"
    /\ mc' = [mc EXCEPT ![MemcacheKey(image, rq[k].size)] = rq[k].img]
    /\ rq' = [rq EXCEPT ![k] = Answer(@, "file", 200, rq[k].img)]
    /\ UNCHANGED <<extension, peerVars, now, image, nodeVars, disk, resized>>

\* ioutil.ReadFile(path): without the full-size blob the cluster is asked,
\* and retrieveImage takes c.ReadOrder(ahash); with it, the rendition is made
ServeReadFull(k) ==
    /\ rq[k].pc = "full"
    /\ rq' = [rq EXCEPT ![k] =
                IF disk[FullPath(image)] = Absent
                THEN [@ EXCEPT !.pc = "retrieve", !.order = ReadOrder(image)]
                ELSE [@ EXCEPT !.pc = "submit"]]
    /\ UNCHANGED <<extension, peerVars, now, image, nodeVars, disk, mc, resized>>

(***************************************************************************)
(* retrieveImage: the loop over nodes_to_check, one node per step.  n is   *)
(* the loop's copy of the list element: what RetrieveImage writes to it is *)
(* not written back to the ring.                                           *)
(***************************************************************************)
\* a read-through that stashes what it fetched under the full-size path:
\* what "nothing is written under the upload directory" must tell apart
\* from the handler's branch
RetrievedAndKept(r, h, files) ==
    [rq |-> Answer(r, "cluster", 200, r.img),
     mc |-> r.img,
     files |-> [files EXCEPT ![FullPath(h)] = r.img]]

\* a loop that notes the answer but goes on to the next node whatever the
\* answer was
IterationKeepsGoing(r, n, resp, t) ==
    LET out == RetrieveImage(n, resp, t)
        r1 == [r EXCEPT !.contacted = Append(@, n.UUID),
                        !.outcomes = Append(@, ~out.err),
                        !.call = [idx |-> r.i, resp |-> resp, t |-> t,
                                  n |-> out.n, body |-> out.body, err |-> out.err]]
    IN  [r1 EXCEPT !.i = r.i + 1]

\* one iteration of the loop on a node n other than myself, answered resp
Iteration(r, n, resp, t) ==
    LET out == RetrieveImage(n, resp, t)
        r1 == [r EXCEPT !.contacted = Append(@, n.UUID),
                        !.outcomes = Append(@, ~out.err),
                        !.call = [idx |-> r.i, resp |-> resp, t |-> t,
                                  n |-> out.n, body |-> out.body, err |-> out.err]]
    IN  IF ~out.err THEN [r1 EXCEPT !.pc = "found", !.img = out.body]
        ELSE [r1 EXCEPT !.i = r.i + 1]

\* "checking ourself would be silly": continue
RetrieveSkip(k) ==
    /\ rq[k].pc = "retrieve"
    /\ rq[k].i <= Len(rq[k].order)
    /\ rq[k].order[rq[k].i].UUID = myself.UUID
    /\ rq' = [rq EXCEPT ![k].i = @ + 1]
    /\ UNCHANGED <<extension, peerVars, now, image, nodeVars, disk, mc, resized>>

\* img, err := n.RetrieveImage(ahash, size, extension)
RetrieveContact(k) ==
    /\ rq[k].pc = "retrieve"
    /\ rq[k].i <= Len(rq[k].order)
    /\ rq[k].order[rq[k].i].UUID # myself.UUID
    /\ LET n == rq[k].order[rq[k].i]
       IN  \E resp \in RetrieveAnswers(n.UUID, image, rq[k].size) :
              rq' = [rq EXCEPT ![k] = Iteration(@, n, resp, now)]
    /\ UNCHANGED <<extension, peerVars, now, image, nodeVars, disk, mc, resized>>

\* the state ServeImageHandler leaves when retrieveImage returned img: the
\* request answered, the value set in the blob cache, and the files
Retrieved(r, h, files) ==
    [rq |-> Answer(r, "cluster", 200, r.img), mc |-> r.img, files |-> files]

\* retrieveImage returned the image: ctx.MC.Set and it is served
ServeRetrieved(k) ==
    /\ rq[k].pc = "found"
    /\ LET after == Retrieved(rq[k], image, disk)
       IN  /\ rq' = [rq EXCEPT ![k] = after.rq]
           /\ mc' = [mc EXCEPT ![MemcacheKey(image, rq[k].size)] = after.mc]
           /\ disk' = after.files
    /\ UNCHANGED <<extension, peerVars, now, image, nodeVars, resized>>

\* the list is exhausted: "not found in the cluster", and the answer is 404
ServeNotFound(k) ==
    /\ rq[k].pc = "retrieve"
    /\ rq[k].i > Len(rq[k].order)
    /\ rq' = [rq EXCEPT ![k] = Answer(@, "cluster", 404, NoBody)]
    /\ UNCHANGED <<extension, peerVars, now, image, nodeVars, disk, mc, resized>>

(***************************************************************************)
(* The resize path.  The queue and the reply channel are unbuffered: the   *)
(* handler waits in its send until a worker takes the request, and then    *)
(* for the reply.                                                          *)
(***************************************************************************)
\* a worker takes the request of handler k and replies: magick when the
\* output file exists and is not empty; otherwise the codec is invoked and
\* gives the output image (ok) or fails
ResizeWorker(k, ok) ==
    /\ rq[k].pc = "submit"
    /\ LET out == disk[SizedPath(image, rq[k].size)]
           made == out # Absent /\ out # Empty
       IN  rq' = [rq EXCEPT ![k] =
                    [@ EXCEPT !.pc = "result",
                              !.result = [Success |-> made \/ ok, Magick |-> made,
                                          codec |-> ~made]]]
    /\ UNCHANGED <<extension, peerVars, now, image, nodeVars, disk, mc, resized>>

\* !result.Success: 500
ServeResizeFailed(k) ==
    /\ rq[k].pc = "result"
    /\ ~rq[k].result.Success
    /\ rq' = [rq EXCEPT ![k] = Answer(@, "resize", 500, NoBody)]
    /\ UNCHANGED <<extension, peerVars, now, image, nodeVars, disk, mc, resized>>

\* result.Magick: the sized file is read, set in the blob cache and served
ServeMagick(k) ==
    /\ rq[k].pc = "result"
    /\ rq[k].result.Success
    /\ rq[k].result.Magick
    /\ LET img_contents == ReadFile(disk, SizedPath(image, rq[k].size))
       IN  /\ mc' = [mc EXCEPT ![MemcacheKey(image, rq[k].size)] = img_contents]
           /\ rq' = [rq EXCEPT ![k] = Answer(@, "magick", 200, img_contents)]
    /\ UNCHANGED <<extension, peerVars, now, image, nodeVars, disk, resized>>

\* os.OpenFile(sizedPath, O_CREATE|O_RDWR): the file is there from now on,
\* empty if it was not there, as it was (no truncation) if it was
ServeOpenFile(k) ==
    /\ rq[k].pc = "result"
    /\ rq[k].result.Success
    /\ ~rq[k].result.Magick
    /\ disk' = [disk EXCEPT ![SizedPath(image, rq[k].size)] =
                  IF @ = Absent THEN Empty ELSE @]
    /\ rq' = [rq EXCEPT ![k].pc = "encode"]
    /\ UNCHANGED <<extension, peerVars, now, image, nodeVars, mc, resized>>

\* jpeg.Encode / png.Encode to wFile
ServeEncodeFile(k) ==
    /\ rq[k].pc = "encode"
    /\ disk' = [disk EXCEPT ![SizedPath(image, rq[k].size)] =
                  Encoded(image, rq[k].size)]
    /\ rq' = [rq EXCEPT ![k].pc = "encoded"]
    /\ UNCHANGED <<extension, peerVars, now, image, nodeVars, mc, resized>>

\* the encode to w, then ioutil.ReadFile(sizedPath) and ctx.MC.Set; the
\* request is answered by a resize
ServeEncoded(k) ==
    /\ rq[k].pc = "encoded"
    /\ mc' = [mc EXCEPT ![MemcacheKey(image, rq[k].size)] =
                ReadFile(disk, SizedPath(image, rq[k].size))]
    /\ rq' = [rq EXCEPT ![k] = Answer(@, "resize", 200, Encoded(image, rq[k].size))]
    /\ resized' = resized \cup {<<image, rq[k].size>>}
    /\ UNCHANGED <<extension, peerVars, now, image, nodeVars, disk>>

\* the handler has returned; the slot takes the next request
ServeReturn(k) ==
    /\ rq[k].pc = "done"
    /\ rq' = [rq EXCEPT ![k] = NoRead]
    /\ UNCHANGED <<extension, peerVars, now, image, nodeVars, disk, mc, resized>>

\* memcached drops a value
MemcacheEvict(key) ==
    /\ mc[key] # Absent
    /\ mc' = [mc EXCEPT ![key] = Absent]
    /\ UNCHANGED <<extension, peerVars, now, image, nodeVars, disk, rq, resized>>

(***************************************************************************)
(* The state after main has loaded the configuration: the neighbors of the *)
(* config file added one by one.                                           *)
(***************************************************************************)
ConfigNode(u) == NodeData(u, "n1", TRUE, 0)

ConfigNeighbors ==
    {<<ConfigNode(UB)>>, <<ConfigNode(UB), ConfigNode(UC)>>,
     <<ConfigNode(UB), ConfigNode(UC), ConfigNode(UB)>>}

RECURSIVE LoadNeighbors(_, _)
LoadNeighbors(ns, list) ==
    IF list = <<>> THEN ns
    ELSE LoadNeighbors(AddNeighbor(ns, Head(list)), Tail(list))

\* a peer answers and accepts stashes, answers and is read-only, or is down
PeerConditions ==
    {[up |-> TRUE, writeable |-> TRUE], [up |-> TRUE, writeable |-> FALSE],
     [up |-> FALSE, writeable |-> TRUE]}

\* the replication targets a configuration is drawn from: with two peers,
\* no remote copy, one, and both
Replications == 1..3

Configs ==
    {c \in [Replication : Replications, MinReplication : Replications] :
        c.MinReplication <= c.Replication}

InitNode ==
    /\ now = 1
    /\ image \in Hashes
    /\ myself = NodeData(UA, "n0", TRUE, 0)
    /\ up = NoUpload
    /\ ann = [k \in Announcers |-> NoAnnounce]
    /\ rq = [k \in Readers |-> NoRead]
    /\ mc = [key \in Files |-> Absent]
    /\ resized = {}
    /\ extension = <<".", "j", "p", "g">>
    /\ st = NoStash
    /\ remote = NoRemote

(***************************************************************************)
(* Uploads, with the announces and the clock that run beside them.         *)
(***************************************************************************)
InitUpload ==
    /\ InitNode
    /\ cfg \in Configs
    /\ disk = [f \in Files |-> Absent]
    /\ peerDisk = [u \in Peers |-> {}]
    /\ neighbors = LoadNeighbors(<<>>, <<ConfigNode(UB), ConfigNode(UC)>>)
    /\ \E c \in [Peers -> PeerConditions] :
          /\ peerUp = [u \in Peers |-> c[u].up]
          /\ peerWriteable = [u \in Peers |-> c[u].writeable]

NextUpload ==
    \/ Tick
    \/ AddHandlerForbidden
    \/ \E h \in Hashes : AddHandlerBegin(h)
    \/ AddHandlerStash
    \/ AddHandlerRespond
    \/ AddHandlerReturn
    \/ \E form \in AnnounceForms : form.uuid \in Peers /\ AnnounceHandler(form)

SpecUpload == InitUpload /\ [][NextUpload]_vars

\* the same with the threshold that only the satisfied field reads held fixed
InitExclusion == InitUpload /\ cfg.MinReplication = 1

SpecExclusion == InitExclusion /\ [][NextUpload]_vars

(***************************************************************************)
(* Membership: the neighbors of a config file loaded, and then announces,  *)
(* each a lookup and a write-back with the other requests' steps between.  *)
(***************************************************************************)
InitRing ==
    /\ InitNode
    /\ cfg = [Replication |-> 3, MinReplication |-> 1]
    /\ \E list \in ConfigNeighbors : neighbors = LoadNeighbors(<<>>, list)
    /\ disk = [f \in Files |-> Absent]
    /\ peerUp = [u \in Peers |-> TRUE]
    /\ peerWriteable = [u \in Peers |-> TRUE]
    /\ peerDisk = [u \in Peers |-> {}]

NextRing ==
    \/ Tick
    \/ \E k \in Announcers, form \in AnnounceForms : AnnounceHandlerFind(k, form)
    \/ \E k \in Announcers : AnnounceHandlerUpdate(k)
    \/ \E k \in Announcers : AnnounceHandlerAdd(k)

SpecRing == InitRing /\ [][NextRing]_vars

(***************************************************************************)
(* Reads on a node that holds nothing of the image: each peer answers or   *)
(* is down, and holds the image or does not.                               *)
(***************************************************************************)
InitRetrieve ==
    /\ InitNode
    /\ cfg = [Replication |-> 3, MinReplication |-> 1]
    /\ neighbors = LoadNeighbors(<<>>, <<ConfigNode(UB), ConfigNode(UC)>>)
    /\ disk = [f \in Files |-> Absent]
    /\ peerUp \in [Peers -> BOOLEAN]
    /\ peerWriteable = [u \in Peers |-> TRUE]
    /\ peerDisk \in [Peers -> {{}, {image}}]

NextRetrieve ==
    \/ Tick
    \/ \E k \in ReadThroughs, size \in Sizes : ServeBegin(k, size)
    \/ \E k \in ReadThroughs : ServeCacheGet(k)
    \/ \E k \in ReadThroughs : ServeReadSized(k)
    \/ \E k \in ReadThroughs : ServeReadFull(k)
    \/ \E k \in ReadThroughs : RetrieveSkip(k)
    \/ \E k \in ReadThroughs : RetrieveContact(k)
    \/ \E k \in ReadThroughs : ServeRetrieved(k)
    \/ \E k \in ReadThroughs : ServeNotFound(k)
    \/ \E k \in ReadThroughs : ServeReturn(k)
    \/ \E key \in Files : MemcacheEvict(key)

SpecRetrieve == InitRetrieve /\ [][NextRetrieve]_vars

(***************************************************************************)
(* Reads on a node that holds the full-size image.                         *)
(***************************************************************************)
InitServe ==
    /\ InitNode
    /\ cfg = [Replication |-> 3, MinReplication |-> 1]
    /\ neighbors = LoadNeighbors(<<>>, <<ConfigNode(UB), ConfigNode(UC)>>)
    /\ disk = [f \in Files |->
                 IF f = FullPath(image) THEN FullBytes(image) ELSE Absent]
    /\ peerUp = [u \in Peers |-> TRUE]
    /\ peerWriteable = [u \in Peers |-> TRUE]
    /\ peerDisk = [u \in Peers |-> {}]

NextServe ==
    \/ Tick
    \/ \E k \in Readers, size \in Sizes : ServeBegin(k, size)
    \/ \E k \in Readers : ServeCacheGet(k)
    \/ \E k \in Readers : ServeReadSized(k)
    \/ \E k \in Readers : ServeSized(k)
    \/ \E k \in Readers : ServeReadFull(k)
    \/ \E k \in Readers, ok \in BOOLEAN : ResizeWorker(k, ok)
    \/ \E k \in Readers : ServeResizeFailed(k)
    \/ \E k \in Readers : ServeMagick(k)
    \/ \E k \in Readers : ServeOpenFile(k)
    \/ \E k \in Readers : ServeEncodeFile(k)
    \/ \E k \in Readers : ServeEncoded(k)
    \/ \E k \in Readers : ServeReturn(k)
    \/ \E key \in Files : MemcacheEvict(key)

SpecServe == InitServe /\ [][NextServe]_vars

(***************************************************************************)
(* The stash path on the local node: StashHandler for the requests that    *)
(* arrive at /stash/, among them the one a peer sends while it handles an  *)
(* upload of the image.  The file is created by os.OpenFile and filled by  *)
(* io.Copy: two steps, and the read requests run between them.             *)
(***************************************************************************)
StashRequests == [method : {"GET", "POST"}, hasImage : BOOLEAN, upload : BOOLEAN]

\* the request is one that arrives now: the peer's postFile is a POST with
\* the form file, sent once the peer has written its own copy
Arrives(req) ==
    /\ st.pc = "idle"
    /\ req.upload => /\ remote.pc = "stored"
                     /\ req.method = "POST"
                     /\ req.hasImage

Posted(req) == IF req.upload THEN [remote EXCEPT !.pc = "posted"] ELSE remote

\* "POST only", "non-writeable node" or "no image uploaded": 400
StashHandlerReject(req) ==
    /\ Arrives(req)
    /\ StashHandler(myself.Writeable, req.method, req.hasImage, image, {}).status = 400
    /\ st' = [pc |-> "done", method |-> req.method, hasImage |-> req.hasImage,
              upload |-> req.upload, status |-> 400, text |-> "error"]
    /\ remote' = Posted(req)
    /\ UNCHANGED <<extension, readVars, now, image, nodeVars, disk>>

\* os.MkdirAll and os.OpenFile(fullpath, O_CREATE|O_RDWR): the file is there
\* from now on, empty if it was not there
StashHandlerOpen(req) ==
    /\ Arrives(req)
    /\ StashHandler(myself.Writeable, req.method, req.hasImage, image, {}).status = 200
    /\ disk' = [disk EXCEPT ![FullPath(image)] = IF @ = Absent THEN Empty ELSE @]
    /\ st' = [pc |-> "copy", method |-> req.method, hasImage |-> req.hasImage,
              upload |-> req.upload, status |-> 0, text |-> ""]
    /\ remote' = Posted(req)
    /\ UNCHANGED <<extension, readVars, now, image, nodeVars>>

\* io.Copy(f, i) and fmt.Fprint(w, "ok")
StashHandlerCopy ==
    /\ st.pc = "copy"
    /\ disk' = [disk EXCEPT ![FullPath(image)] = FullBytes(image)]
    /\ st' = [st EXCEPT !.pc = "done", !.status = 200, !.text = "ok"]
    /\ UNCHANGED <<extension, remote, readVars, now, image, nodeVars>>

\* the handler has returned, and the peer that posted has its answer
StashHandlerReturn ==
    /\ st.pc = "done"
    /\ st' = NoStash
    /\ remote' = IF st.upload THEN [remote EXCEPT !.pc = "answered"] ELSE remote
    /\ UNCHANGED <<extension, readVars, now, image, nodeVars, disk>>

(***************************************************************************)
(* An upload of the image at a peer x, which runs the same AddHandler: the *)
(* full-size file is written on x, the blob is stashed to the nodes of x's *)
(* write order, the local node among them or not, and the JSON document   *)
(* is written.                                                             *)
(***************************************************************************)
RemoteUploadBegin(x) ==
    /\ remote.pc = "none"
    /\ peerUp[x]
    /\ peerDisk' = [peerDisk EXCEPT ![x] = @ \cup {image}]
    /\ remote' = [pc |-> "stored", at |-> x]
    /\ UNCHANGED <<extension, st, readVars, now, image, cfg, myself, neighbors,
                   peerUp, peerWriteable, disk, up, ann>>

RemoteUploadRespond ==
    /\ remote.pc \in {"stored", "answered"}
    /\ remote' = [remote EXCEPT !.pc = "done"]
    /\ UNCHANGED <<extension, st, readVars, now, image, nodeVars, disk>>

\* a handler that fans out: a peer that does not hold the blob asks the
\* nodes it knows and answers with what they hold
RetrieveHandlerFanOut(u, h, size) ==
    IF ~peerUp[u] THEN {TransportError}
    ELSE IF \A v \in Peers : h \notin peerDisk[v] THEN {HttpResponse(404, NoBody)}
    ELSE {HttpResponse(200, BlobBytes(h, size))}

\* what answers a GET /retrieve/ at a peer u that is served by
\* RetrieveHandler: the file at the size when the peer holds the blob (the
\* full-size file as it is, a rendition if the resize succeeds, 500 if it
\* does not), 404 when it does not hold it
RetrieveHandler(u, h, size) ==
    IF ~peerUp[u] THEN {TransportError}
    ELSE IF h \notin peerDisk[u] THEN {HttpResponse(404, NoBody)}
    ELSE {HttpResponse(200, BlobBytes(h, size))} \cup
         (IF size = "full" THEN {} ELSE {HttpResponse(500, NoBody)})

\* img, err := n.RetrieveImage(ahash, size, extension), answered by the
\* peer's RetrieveHandler
RetrieveFromPeer(k) ==
    /\ rq[k].pc = "retrieve"
    /\ rq[k].i <= Len(rq[k].order)
    /\ rq[k].order[rq[k].i].UUID # myself.UUID
    /\ LET n == rq[k].order[rq[k].i]
       IN  \E resp \in RetrieveHandler(n.UUID, image, rq[k].size) :
              rq' = [rq EXCEPT ![k] = Iteration(@, n, resp, now)]
    /\ UNCHANGED <<extension, peerVars, now, image, nodeVars, disk, mc, resized>>

(***************************************************************************)
(* Round trips: every peer is reachable and known, the image is uploaded   *)
(* at a peer, and the local node, which accepts stashes or does not, is    *)
(* asked for the full-size image before, while and after.                  *)
(***************************************************************************)
InitRoundTrip ==
    /\ now = 1
    /\ image \in Hashes
    /\ myself \in {NodeData(UA, "n0", w, 0) : w \in BOOLEAN}
    /\ cfg = [Replication |-> 3, MinReplication |-> 1]
    /\ neighbors = LoadNeighbors(<<>>, <<ConfigNode(UB), ConfigNode(UC)>>)
    /\ disk = [f \in Files |-> Absent]
    /\ peerUp = [u \in Peers |-> TRUE]
    /\ peerWriteable = [u \in Peers |-> TRUE]
    /\ peerDisk = [u \in Peers |-> {}]
    /\ up = NoUpload
    /\ ann = [k \in Announcers |-> NoAnnounce]
    /\ rq = [k \in Readers |-> NoRead]
    /\ mc = [key \in Files |-> Absent]
    /\ resized = {}
    /\ extension = <<".", "j", "p", "g">>
    /\ st = NoStash
    /\ remote = NoRemote

NextRoundTrip ==
    \/ \E x \in Peers : RemoteUploadBegin(x)
    \/ RemoteUploadRespond
    \/ \E req \in StashRequests : StashHandlerReject(req)
    \/ \E req \in StashRequests : StashHandlerOpen(req)
    \/ StashHandlerCopy
    \/ StashHandlerReturn
    \/ \E k \in ReadThroughs : ServeBegin(k, "full")
    \/ \E k \in ReadThroughs : ServeCacheGet(k)
    \/ \E k \in ReadThroughs : ServeReadSized(k)
    \/ \E k \in ReadThroughs : ServeSized(k)
    \/ \E k \in ReadThroughs : ServeReadFull(k)
    \/ \E k \in ReadThroughs : RetrieveSkip(k)
    \/ \E k \in ReadThroughs : RetrieveFromPeer(k)
    \/ \E k \in ReadThroughs : ServeRetrieved(k)
    \/ \E k \in ReadThroughs : ServeNotFound(k)
    \/ \E k \in ReadThroughs, ok \in BOOLEAN : ResizeWorker(k, ok)
    \/ \E k \in ReadThroughs : ServeResizeFailed(k)
    \/ \E k \in ReadThroughs : ServeMagick(k)
    \/ \E k \in ReadThroughs : ServeOpenFile(k)
    \/ \E k \in ReadThroughs : ServeEncodeFile(k)
    \/ \E k \in ReadThroughs : ServeEncoded(k)
    \/ \E k \in ReadThroughs : ServeReturn(k)

SpecRoundTrip == InitRoundTrip /\ [][NextRoundTrip]_vars

(***************************************************************************)
(* The handlers of package views, which main registers: StashHandler and   *)
(* ServeImageHandler as src/views/views.go has them.  There is no blob     *)
(* cache, no check of the writeable flag, of the form file or of the       *)
(* resize result; a nil dereference panics, and net/http closes the        *)
(* connection without a response (status 0 here).                          *)
(***************************************************************************)
\* "POST only": 400
ViewsStashHandlerReject(req) ==
    /\ Arrives(req)
    /\ req.method # "POST"
    /\ st' = [pc |-> "done", method |-> req.method, hasImage |-> req.hasImage,
              upload |-> req.upload, status |-> 400, text |-> "error"]
    /\ remote' = Posted(req)
    /\ UNCHANGED <<extension, readVars, now, image, nodeVars, disk>>

\* i, fh, _ := r.FormFile("image") without the form file: i is nil, and
\* ioutil.ReadAll(i) panics
ViewsStashHandlerPanic(req) ==
    /\ Arrives(req)
    /\ req.method = "POST"
    /\ ~req.hasImage
    /\ st' = [pc |-> "done", method |-> req.method, hasImage |-> req.hasImage,
              upload |-> req.upload, status |-> 0, text |-> ""]
    /\ remote' = Posted(req)
    /\ UNCHANGED <<extension, readVars, now, image, nodeVars, disk>>

\* os.MkdirAll and os.OpenFile(fullpath, O_CREATE|O_RDWR), whatever the
\* local node's Writeable says
ViewsStashHandlerOpen(req) ==
    /\ Arrives(req)
    /\ req.method = "POST"
    /\ req.hasImage
    /\ disk' = [disk EXCEPT ![FullPath(image)] = IF @ = Absent THEN Empty ELSE @]
    /\ st' = [pc |-> "write", method |-> req.method, hasImage |-> req.hasImage,
              upload |-> req.upload, status |-> 0, text |-> ""]
    /\ remote' = Posted(req)
    /\ UNCHANGED <<extension, readVars, now, image, nodeVars>>

\* f.Write(d), and the handler returns: 200 with an empty body
ViewsStashHandlerWrite ==
    /\ st.pc = "write"
    /\ disk' = [disk EXCEPT ![FullPath(image)] = FullBytes(image)]
    /\ st' = [st EXCEPT !.pc = "done", !.status = 200]
    /\ UNCHANGED <<extension, remote, readVars, now, image, nodeVars>>

\* the request arrives
ViewsServeBegin(k, size) ==
    /\ rq[k].pc = "idle"
    /\ rq' = [rq EXCEPT ![k] = [NoRead EXCEPT !.pc = "v_sized", !.size = size]]
    /\ UNCHANGED <<extension, peerVars, now, image, nodeVars, disk, mc, resized>>

\* ioutil.ReadFile(sizedPath): "we've got it, so serve it directly"
ViewsReadSized(k) ==
    /\ rq[k].pc = "v_sized"
    /\ LET contents == disk[SizedPath(image, rq[k].size)]
       IN  rq' = [rq EXCEPT ![k] =
                    IF contents # Absent THEN Answer(@, "file", 200, contents)
                    ELSE [@ EXCEPT !.pc = "v_full"]]
    /\ UNCHANGED <<extension, peerVars, now, image, nodeVars, disk, mc, resized>>

\* ioutil.ReadFile(path): the cluster is asked, or the resize is requested
ViewsReadFull(k) ==
    /\ rq[k].pc = "v_full"
    /\ rq' = [rq EXCEPT ![k] =
                IF disk[FullPath(image)] = Absent
                THEN [@ EXCEPT !.pc = "retrieve", !.order = ReadOrder(image)]
                ELSE [@ EXCEPT !.pc = "submit"]]
    /\ UNCHANGED <<extension, peerVars, now, image, nodeVars, disk, mc, resized>>

\* retrieveImage returned the image: it is served
ViewsRetrieved(k) ==
    /\ rq[k].pc = "found"
    /\ rq' = [rq EXCEPT ![k] = Answer(@, "cluster", 200, rq[k].img)]
    /\ UNCHANGED <<extension, peerVars, now, image, nodeVars, disk, mc, resized>>

\* outputImage := *result.OutputImage ("TODO handle resize errors"): with
\* no output image the dereference panics
ViewsDereference(k) ==
    /\ rq[k].pc = "result"
    /\ ~rq[k].result.Success
    /\ rq' = [rq EXCEPT ![k] = Answer(@, "panic", 0, NoBody)]
    /\ UNCHANGED <<extension, peerVars, now, image, nodeVars, disk, mc, resized>>

\* the encode to w: the request is answered by a resize
ViewsEncoded(k) ==
    /\ rq[k].pc = "encoded"
    /\ rq' = [rq EXCEPT ![k] = Answer(@, "resize", 200, Encoded(image, rq[k].size))]
    /\ resized' = resized \cup {<<image, rq[k].size>>}
    /\ UNCHANGED <<extension, peerVars, now, image, nodeVars, disk, mc>>

(***************************************************************************)
(* A node that serves with the handlers of package views: it accepts       *)
(* stashes or does not, holds the full-size image or does not, and handles *)
(* one stash request and one read request at a time.                       *)
(***************************************************************************)
InitViews ==
    /\ now = 1
    /\ image \in Hashes
    /\ myself \in {NodeData(UA, "n0", w, 0) : w \in BOOLEAN}
    /\ cfg = [Replication |-> 3, MinReplication |-> 1]
    /\ neighbors = LoadNeighbors(<<>>, <<ConfigNode(UB), ConfigNode(UC)>>)
    /\ disk \in {[f \in Files |-> IF f = FullPath(image) THEN c ELSE Absent] :
                    c \in {Absent, FullBytes(image)}}
    /\ peerUp = [u \in Peers |-> TRUE]
    /\ peerWriteable = [u \in Peers |-> TRUE]
    /\ peerDisk = [u \in Peers |-> IF u = UB THEN {image} ELSE {}]
    /\ up = NoUpload
    /\ ann = [k \in Announcers |-> NoAnnounce]
    /\ rq = [k \in Readers |-> NoRead]
    /\ mc = [key \in Files |-> Absent]
    /\ resized = {}
    /\ extension = <<".", "j", "p", "g">>
    /\ st = NoStash
    /\ remote = NoRemote

NextViews ==
    \/ \E req \in StashRequests : ViewsStashHandlerReject(req)
    \/ \E req \in StashRequests : ViewsStashHandlerPanic(req)
    \/ \E req \in StashRequests : ViewsStashHandlerOpen(req)
    \/ ViewsStashHandlerWrite
    \/ StashHandlerReturn
    \/ \E size \in Sizes : ViewsServeBegin(1, size)
    \/ ViewsReadSized(1)
    \/ ViewsReadFull(1)
    \/ RetrieveSkip(1)
    \/ RetrieveFromPeer(1)
    \/ ViewsRetrieved(1)
    \/ ServeNotFound(1)
    \/ \E ok \in BOOLEAN : ResizeWorker(1, ok)
    \/ ViewsDereference(1)
    \/ ServeOpenFile(1)
    \/ ServeEncodeFile(1)
    \/ ViewsEncoded(1)
    \/ ServeReturn(1)

SpecViews == InitViews /\ [][NextViews]_vars

(***************************************************************************)
(* The read path from the URL on.  The hash segment is a string, here the  *)
(* sequence of its characters: a hexadecimal digit is its value (0..15),   *)
(* any other character a code above.  The handler checks the length of the *)
(* segment and nothing else of it.                                         *)
(***************************************************************************)
HashLength == 40

\* fmt.Sprintf("%x", h.Sum(nil)): the digest written in 40 hex digits
HexOf(h) ==
    [i \in 1..HashLength |->
        IF i = HashLength - 1 THEN h \div 16
        ELSE IF i = HashLength THEN h % 16
        ELSE 0]

\* the hash segments of the requests: a hash, the same cut short by a
\* character and longer by one, and the same with "." for its first or its
\* last character
SegmentsOf(h) ==
    {HexOf(h), SubSeq(HexOf(h), 1, HashLength - 1), HexOf(h) \o <<0>>,
     [HexOf(h) EXCEPT ![1] = 46], [HexOf(h) EXCEPT ![HashLength] = 46]}

Segments == UNION {SegmentsOf(h) : h \in Hashes}

IsHexDigit(c) == c \in 0..15

\* exactly 40 hexadecimal characters
WellFormed(seg) ==
    /\ Len(seg) = HashLength
    /\ \A i \in 1..Len(seg) : IsHexDigit(seg[i])

\* hashStringToPath: the pairs of characters, to be joined with "/"
hashStringToPath(seg) ==
    [j \in 1..(Len(seg) \div 2) |-> <<seg[2 * j - 1], seg[2 * j]>>]

\* the request arrives: the URL is split, and a segment that is not 40
\* characters long is answered 404 "bad hash"; any other goes on to the
\* blob cache, under the key and the directory that the segment gives
ServeParse(k, seg, size) ==
    /\ rq[k].pc = "idle"
    /\ rq' = [rq EXCEPT ![k] =
                IF Len(seg) # HashLength
                THEN Answer([NoRead EXCEPT !.size = size], "parse", 404, NoBody)
                ELSE IF hashStringToPath(seg) = hashStringToPath(HexOf(image))
                THEN [NoRead EXCEPT !.pc = "cache", !.size = size,
                                    !.late = (<<image, size>> \in resized),
                                    !.after = (remote.pc = "done")]
                ELSE [NoRead EXCEPT !.pc = "raw", !.size = size]]
    /\ UNCHANGED <<extension, peerVars, now, image, nodeVars, disk, mc, resized>>

\* a segment of 40 characters under which nothing is stored: ctx.MC.Get
\* misses, ioutil.ReadFile fails on the sized path and on the full-size
\* path derived from it, and retrieveImage takes the read order, which
\* starts where the segment falls on the ring
ServeRawLookup(k) ==
    /\ rq[k].pc = "raw"
    /\ \E h \in Hashes :
          rq' = [rq EXCEPT ![k] = [@ EXCEPT !.pc = "raw_cluster",
                                            !.order = ReadOrder(h)]]
    /\ UNCHANGED <<extension, peerVars, now, image, nodeVars, disk, mc, resized>>

\* every node of the list but the local one is asked, none has it: 404
ServeRawNotFound(k) ==
    /\ rq[k].pc = "raw_cluster"
    /\ LET Peer(n) == n.UUID # myself.UUID
           asked == SelectSeq(rq[k].order, Peer)
       IN  rq' = [rq EXCEPT ![k] =
                    Answer([@ EXCEPT !.contacted =
                                        [i \in 1..Len(asked) |-> asked[i].UUID],
                                     !.i = Len(rq[k].order) + 1],
                           "cluster", 404, NoBody)]
    /\ UNCHANGED <<extension, peerVars, now, image, nodeVars, disk, mc, resized>>

(***************************************************************************)
(* Read requests as they come from the URL: any of the segments, either    *)
(* size and the extension of the run, on a node that holds the full-size   *)
(* image or does not, peer B holding it.                                   *)
(***************************************************************************)
InitRequests ==
    /\ now = 1
    /\ image \in Hashes
    /\ myself = NodeData(UA, "n0", TRUE, 0)
    /\ cfg = [Replication |-> 3, MinReplication |-> 1]
    /\ neighbors = LoadNeighbors(<<>>, <<ConfigNode(UB), ConfigNode(UC)>>)
    /\ disk \in {[f \in Files |-> IF f = FullPath(image) THEN c ELSE Absent] :
                    c \in {Absent, FullBytes(image)}}
    /\ peerUp = [u \in Peers |-> TRUE]
    /\ peerWriteable = [u \in Peers |-> TRUE]
    /\ peerDisk = [u \in Peers |-> IF u = UB THEN {image} ELSE {}]
    /\ up = NoUpload
    /\ ann = [k \in Announcers |-> NoAnnounce]
    /\ rq = [k \in Readers |-> NoRead]
    /\ mc = [key \in Files |-> Absent]
    /\ resized = {}
    /\ extension \in Extensions
    /\ st = NoStash
    /\ remote = NoRemote

NextRequests ==
    \/ \E k \in Readers, seg \in Segments, size \in Sizes : ServeParse(k, seg, size)
    \/ \E k \in Readers : ServeRawLookup(k)
    \/ \E k \in Readers : ServeRawNotFound(k)
    \/ \E k \in Readers : ServeCacheGet(k)
    \/ \E k \in Readers : ServeReadSized(k)
    \/ \E k \in Readers : ServeSized(k)
    \/ \E k \in Readers : ServeReadFull(k)
    \/ \E k \in Readers : RetrieveSkip(k)
    \/ \E k \in Readers : RetrieveFromPeer(k)
    \/ \E k \in Readers : ServeRetrieved(k)
    \/ \E k \in Readers : ServeNotFound(k)
    \/ \E k \in Readers, ok \in BOOLEAN : ResizeWorker(k, ok)
    \/ \E k \in Readers : ServeResizeFailed(k)
    \/ \E k \in Readers : ServeMagick(k)
    \/ \E k \in Readers : ServeOpenFile(k)
    \/ \E k \in Readers : ServeEncodeFile(k)
    \/ \E k \in Readers : ServeEncoded(k)
    \/ \E k \in Readers : ServeReturn(k)

SpecRequests == InitRequests /\ [][NextRequests]_vars

(***************************************************************************)
(* A disk that fails: the calls on the upload directory return an error,   *)
(* which the handlers drop.                                                *)
(***************************************************************************)
\* os.MkdirAll, os.OpenFile or io.Copy fails in AddHandler: nothing is
\* written, and the handler goes on to ctx.Cluster.Stash
AddHandlerBeginDiskError(h) ==
    /\ up.pc = "idle"
    /\ h = image
    /\ up' = [NoUpload EXCEPT !.pc = "stash", !.hash = h, !.W = StashTargets(h)]
    /\ UNCHANGED <<extension, peerVars, readVars,
                   now, image, cfg, myself, neighbors, peerUp,
                   peerWriteable, peerDisk, disk, ann>>

\* postFile for the next target: os.Open(filename) fails on the file that
\* is not there and postFile panics; the connection is closed without a
\* response
AddHandlerPostPanic ==
    /\ up.pc = "stash"
    /\ StashGoesOn(up)
    /\ disk[FullPath(up.hash)] = Absent
    /\ up' = [up EXCEPT !.pc = "done", !.status = 0]
    /\ UNCHANGED <<extension, peerVars, readVars,
                   now, image, cfg, myself, neighbors, peerUp,
                   peerWriteable, peerDisk, disk, ann>>

\* postFile for the next target when os.Open(filename) finds the file
AddHandlerPost ==
    /\ up.pc = "stash"
    /\ disk[FullPath(up.hash)] # Absent
    /\ AddHandlerStash

\* os.OpenFile(sizedPath, ...) fails: wFile is nil, "we just can't cache it"
ServeOpenFileError(k) ==
    /\ rq[k].pc = "result"
    /\ rq[k].result.Success
    /\ ~rq[k].result.Magick
    /\ rq' = [rq EXCEPT ![k].pc = "nofile"]
    /\ UNCHANGED <<extension, peerVars, now, image, nodeVars, disk, mc, resized>>

\* the file was opened and the encode to it fails: it stays as it is
ServeEncodeFileError(k) ==
    /\ rq[k].pc = "encode"
    /\ rq' = [rq EXCEPT ![k].pc = "nofile"]
    /\ UNCHANGED <<extension, peerVars, now, image, nodeVars, disk, mc, resized>>

\* the encode to w, then ioutil.ReadFile(sizedPath) and ctx.MC.Set as after
\* a write that succeeded: what is set is what the file holds, the empty
\* slice if it is not there
ServeEncodedNoFile(k) ==
    /\ rq[k].pc = "nofile"
    /\ mc' = [mc EXCEPT ![MemcacheKey(image, rq[k].size)] =
                ReadFile(disk, SizedPath(image, rq[k].size))]
    /\ rq' = [rq EXCEPT ![k] = Answer(@, "resize", 200, Encoded(image, rq[k].size))]
    /\ resized' = resized \cup {<<image, rq[k].size>>}
    /\ UNCHANGED <<extension, peerVars, now, image, nodeVars, disk>>

(***************************************************************************)
(* Uploads and reads, one request of each at a time, on a disk whose       *)
(* writes succeed or fail.                                                 *)
(***************************************************************************)
InitFaults == InitExclusion

NextFaults ==
    \/ \E h \in Hashes : AddHandlerBegin(h)
    \/ \E h \in Hashes : AddHandlerBeginDiskError(h)
    \/ AddHandlerPost
    \/ AddHandlerPostPanic
    \/ AddHandlerRespond
    \/ AddHandlerReturn
    \/ \E size \in Sizes : ServeBegin(1, size)
    \/ ServeCacheGet(1)
    \/ ServeReadSized(1)
    \/ ServeSized(1)
    \/ ServeReadFull(1)
    \/ RetrieveSkip(1)
    \/ RetrieveFromPeer(1)
    \/ ServeRetrieved(1)
    \/ ServeNotFound(1)
    \/ \E ok \in BOOLEAN : ResizeWorker(1, ok)
    \/ ServeResizeFailed(1)
    \/ ServeOpenFile(1)
    \/ ServeOpenFileError(1)
    \/ ServeEncodeFile(1)
    \/ ServeEncodeFileError(1)
    \/ ServeEncoded(1)
    \/ ServeEncodedNoFile(1)
    \/ ServeReturn(1)

SpecFaults == InitFaults /\ [][NextFaults]_vars

(***************************************************************************)
(* Uploads beside announces that are a lookup and a write-back each, with  *)
(* the steps of the other requests between the two: one upload and one     *)
(* announce at a time.                                                     *)
(***************************************************************************)
InitMutations == InitExclusion /\ cfg.Replication = 3

NextMutations ==
    \/ \E h \in Hashes : AddHandlerBegin(h)
    \/ AddHandlerStash
    \/ AddHandlerRespond
    \/ AddHandlerReturn
    \/ \E form \in AnnounceForms : AnnounceHandlerFind(1, form)
    \/ AnnounceHandlerUpdate(1)
    \/ AnnounceHandlerAdd(1)

SpecMutations == InitMutations /\ [][NextMutations]_vars

(***************************************************************************)
(* The other peer-facing handlers on the local node, a request of a peer   *)
(* handled in one step each: what they read and write is the upload        *)
(* directory and the resize queue.                                         *)
(***************************************************************************)
\* GET /retrieve_info/<hash>/<size>/<ext>/: os.Open of the full-size path
\* tells whether the blob is local
RetrieveInfoHandler ==
    /\ st.pc = "idle"
    /\ st' = [pc |-> "done", method |-> "GET", hasImage |-> FALSE, upload |-> FALSE,
              status |-> 200,
              text |-> IF disk[FullPath(image)] # Absent THEN "local" ELSE "not local"]
    /\ UNCHANGED <<extension, remote, readVars, now, image, nodeVars, disk>>

\* GET /retrieve/<hash>/<size>/<ext>/: the file at the size if it is there,
\* 404 without the full-size file, and else the rendition the resize worker
\* makes, written to the sized path, or 500
RetrieveHandlerServe(size) ==
    /\ st.pc = "idle"
    /\ \E ok \in BOOLEAN :
          LET answer(status, text) ==
                  [pc |-> "done", method |-> "GET", hasImage |-> FALSE,
                   upload |-> FALSE, status |-> status, text |-> text]
          IN  IF disk[SizedPath(image, size)] # Absent
              THEN st' = answer(200, "image") /\ disk' = disk
              ELSE IF disk[FullPath(image)] = Absent
              THEN st' = answer(404, "not found") /\ disk' = disk
              ELSE IF ok
              THEN /\ st' = answer(200, "image")
                   /\ disk' = [disk EXCEPT ![SizedPath(image, size)] =
                                  Encoded(image, size)]
              ELSE st' = answer(500, "could not resize image") /\ disk' = disk
    /\ UNCHANGED <<extension, remote, readVars, now, image, nodeVars>>

(***************************************************************************)
(* The requests of the clients and of the peers on one node: uploads and   *)
(* reads of the full-size image, which call the peers, beside the stashes  *)
(* and retrieves the peers send; one request of each kind at a time.       *)
(***************************************************************************)
InitFanOut == InitRoundTrip

NextFanOut ==
    \/ \E x \in Peers : RemoteUploadBegin(x)
    \/ RemoteUploadRespond
    \/ \E req \in StashRequests : StashHandlerReject(req)
    \/ \E req \in StashRequests : StashHandlerOpen(req)
    \/ StashHandlerCopy
    \/ StashHandlerReturn
    \/ RetrieveInfoHandler
    \/ \E size \in Sizes : RetrieveHandlerServe(size)
    \/ \E h \in Hashes : AddHandlerBegin(h)
    \/ AddHandlerStash
    \/ AddHandlerRespond
    \/ AddHandlerReturn
    \/ ServeBegin(1, "full")
    \/ ServeCacheGet(1)
    \/ ServeReadSized(1)
    \/ ServeSized(1)
    \/ ServeReadFull(1)
    \/ RetrieveSkip(1)
    \/ RetrieveFromPeer(1)
    \/ ServeRetrieved(1)
    \/ ServeNotFound(1)
    \/ ServeReturn(1)

SpecFanOut == InitFanOut /\ [][NextFanOut]_vars

(***************************************************************************)
(* The resize queue and the reply channel, step by step.  The handler      *)
(* makes an unbuffered reply channel, sends the request on the queue and   *)
(* then receives on the reply channel; a worker of the pool receives the   *)
(* request, resizes and replies with a send that does not block: the reply *)
(* is handed over if the handler is in its receive, and dropped if not.    *)
(* job is "taken" from the worker's receive to its reply.                  *)
(***************************************************************************)
\* ctx.Ch.ResizeQueue <- ResizeRequest{path, extension, size, c}: the send
\* ends when a worker that is free receives the request
ResizeQueueSend(k) ==
    /\ rq[k].pc = "submit"
    /\ Cardinality({j \in Readers : rq[j].job = "taken"}) < NumWorkers
    /\ rq' = [rq EXCEPT ![k].pc = "sent", ![k].job = "taken"]
    /\ UNCHANGED <<extension, peerVars, now, image, nodeVars, disk, mc, resized>>

\* result := <-c: the handler is in its receive from now on
ReplyReceive(k) ==
    /\ rq[k].pc = "sent"
    /\ rq' = [rq EXCEPT ![k].pc = "recv"]
    /\ UNCHANGED <<extension, peerVars, now, image, nodeVars, disk, mc, resized>>

\* the worker replies as ResizeWorker does, with a send that does not
\* block, and moves to the next request
ResizeWorkerReply(k, ok) ==
    /\ rq[k].job = "taken"
    /\ LET out == disk[SizedPath(image, rq[k].size)]
           made == out # Absent /\ out # Empty
       IN  rq' = [rq EXCEPT ![k] =
                    IF rq[k].pc = "recv"
                    THEN [@ EXCEPT !.pc = "result", !.job = "replied",
                                   !.result = [Success |-> made \/ ok,
                                               Magick |-> made, codec |-> ~made]]
                    ELSE [@ EXCEPT !.job = "dropped"]]
    /\ UNCHANGED <<extension, peerVars, now, image, nodeVars, disk, mc, resized>>

\* the steps of the handler of request k once the request has arrived, and
\* those of the worker that has its ResizeRequest
HandlerStep(k) ==
    \/ ServeCacheGet(k)
    \/ ServeReadSized(k)
    \/ ServeSized(k)
    \/ ServeReadFull(k)
    \/ ResizeQueueSend(k)
    \/ ReplyReceive(k)
    \/ ServeResizeFailed(k)
    \/ ServeMagick(k)
    \/ ServeOpenFile(k)
    \/ ServeEncodeFile(k)
    \/ ServeEncoded(k)
    \/ ServeReturn(k)

WorkerStep(k) == \E ok \in BOOLEAN : ResizeWorkerReply(k, ok)

NextResize ==
    \/ \E k \in Readers, size \in Sizes : ServeBegin(k, size)
    \/ \E k \in Readers : ServeCacheGet(k)
    \/ \E k \in Readers : ServeReadSized(k)
    \/ \E k \in Readers : ServeSized(k)
    \/ \E k \in Readers : ServeReadFull(k)
    \/ \E k \in Readers : ResizeQueueSend(k)
    \/ \E k \in Readers : ReplyReceive(k)
    \/ \E k \in Readers, ok \in BOOLEAN : ResizeWorkerReply(k, ok)
    \/ \E k \in Readers : ServeResizeFailed(k)
    \/ \E k \in Readers : ServeMagick(k)
    \/ \E k \in Readers : ServeOpenFile(k)
    \/ \E k \in Readers : ServeEncodeFile(k)
    \/ \E k \in Readers : ServeEncoded(k)
    \/ \E k \in Readers : ServeReturn(k)

\* reads on a node that holds the full-size image, every handler that has
\* a step to take and every worker that has a request going on
SpecResizeLive ==
    /\ InitServe
    /\ [][NextResize]_vars
    /\ \A k \in Readers : WF_vars(HandlerStep(k)) /\ WF_vars(WorkerStep(k))

(***************************************************************************)
(* Placement: rings of every membership the config file and the announces  *)
(* give, the local node's own uuid announced included, and one read        *)
(* request at a time whose retrieveImage asks the ring for the read order. *)
(* Placement does not read the clock, which stands still here.             *)
(***************************************************************************)
PlacementNeighbors ==
    ConfigNeighbors \cup {<<>>, <<ConfigNode(UC), ConfigNode(UB)>>}

InitPlacement ==
    /\ InitNode
    /\ cfg = [Replication |-> 3, MinReplication |-> 1]
    /\ \E list \in PlacementNeighbors : neighbors = LoadNeighbors(<<>>, list)
    /\ disk = [f \in Files |-> Absent]
    /\ peerUp = [u \in Peers |-> TRUE]
    /\ peerWriteable = [u \in Peers |-> TRUE]
    /\ peerDisk = [u \in Peers |-> IF u = UB THEN {image} ELSE {}]

NextPlacement ==
    \/ \E form \in AnnounceForms : AnnounceHandler(form)
    \/ ServeBegin(1, "full")
    \/ ServeCacheGet(1)
    \/ ServeReadSized(1)
    \/ ServeReadFull(1)
    \/ RetrieveSkip(1)
    \/ RetrieveFromPeer(1)
    \/ ServeRetrieved(1)
    \/ ServeNotFound(1)
    \/ ServeReturn(1)

SpecPlacement == InitPlacement /\ [][NextPlacement]_vars

UUIDsOf(seq) == {seq[i].UUID : i \in 1..Len(seq)}
Elements(seq) == {seq[i] : i \in 1..Len(seq)}

\* the peer accepted the blob: it answered the POST /stash/ with "ok"
Accepted(resp) == ~resp.err /\ resp.status = 200

(***************************************************************************)
(* C1.  For every upload, the response field satisfied is true exactly     *)
(* when (number of uuids in nodes + 1) >= min_replication, the local copy  *)
(* counting as one replica.                                                *)
(***************************************************************************)
C1_SatisfiedCountsLocalCopy ==
    (up.pc = "done" /\ up.status = 200) =>
        (up.satisfied <=> (Len(up.nodes) + 1 >= cfg.MinReplication))

\* the step is the iteration of the stash loop that sends hash h to peer u
StashStepTo(u, h) ==
    /\ up.pc = "stash"
    /\ StashGoesOn(up)
    /\ u = up.W[up.i].UUID
    /\ h = up.hash
    /\ AddHandlerStash

\* the ring's record of uuid after the step
RingNodeAfter(uuid) == RingNodeOf(myself', neighbors', uuid)

(***************************************************************************)
(* C2.  Node.Stash reports success only when the peer accepted the blob:   *)
(* when the POST fails or is rejected, the stash returns false (the uuid   *)
(* is not recorded), last_failed is now and the ring's view of the peer is *)
(* writeable = false; when it is accepted, the uuid is recorded and        *)
(* last_seen is now.  Hence every uuid in an upload's nodes list is a peer *)
(* that holds the full-size blob.                                          *)
(***************************************************************************)
C2_StashReportsAcceptance ==
    [][\A u \in Peers, h \in Hashes, t \in 1..MaxTime :
          (t = now /\ StashStepTo(u, h)) =>
              /\ Accepted(StashRoundTrip(u, h)) =>
                    /\ up'.nodes = Append(up.nodes, u)
                    /\ RingNodeAfter(u).LastSeen = t
              /\ ~Accepted(StashRoundTrip(u, h)) =>
                    /\ up'.nodes = up.nodes
                    /\ RingNodeAfter(u).LastFailed = t
                    /\ ~RingNodeAfter(u).Writeable
              /\ \A v \in Elements(up'.nodes) : h \in peerDisk'[v]]_vars

\* b is a stash target of every hash after the step
TargetAfter(b) ==
    \A h \in Hashes : b \in UUIDsOf(StashTargetsOf(myself', neighbors', h))

\* peer b is down, an upload's stash to it has failed and the ring holds it
\* as not writeable
MarkedFailed(b) ==
    /\ ~peerUp[b]
    /\ RingNode(b).LastFailed > 0
    /\ ~RingNode(b).Writeable

\* the step is an announce of b; with asWriteable, one carrying
\* writeable = "true"
AnnounceOf(b, asWriteable) ==
    /\ up' = up
    /\ \E form \in AnnounceForms :
          /\ form.uuid = b
          /\ asWriteable => form.writeable = "true"
          /\ AnnounceHandler(form)

UUIDSeq(seq) == [i \in 1..Len(seq) |-> seq[i].UUID]
NotMyself(n) == n.UUID # myself.UUID
Others(seq) == UUIDSeq(SelectSeq(seq, NotMyself))

\* the request went to the cluster: it is in retrieveImage or was answered
\* from what retrieveImage returned
InCluster(r) ==
    r.pc \in {"retrieve", "found"} \/ (r.pc = "done" /\ r.via = "cluster")

(***************************************************************************)
(* C4.  retrieveImage contacts the peers strictly in read_order(hash)      *)
(* order and never the local node: at every point the nodes contacted are  *)
(* the nodes other than myself of the part of read_order(hash) gone        *)
(* through, in that order, so that after each failing peer the next        *)
(* candidate is the next contacted.  Every contact but the last failed:    *)
(* the loop stops at the first peer whose retrieve succeeds, contacts no   *)
(* later peer and returns that peer's body.  It returns NotFound if and    *)
(* only if every peer other than myself was contacted and failed.          *)
(***************************************************************************)
C4_RetrieveInReadOrder ==
    \A k \in Readers :
        LET r == rq[k]
            gone == IF r.pc = "retrieve" \/ r.status = 404 THEN r.i - 1 ELSE r.i
            n == Len(r.contacted)
            allFailed == r.contacted = Others(r.order)
                         /\ \A j \in 1..n : ~r.outcomes[j]
        IN  InCluster(r) =>
              /\ r.order = ReadOrder(image)
              /\ r.contacted = Others(SubSeq(r.order, 1, gone))
              /\ Len(r.outcomes) = n
              /\ \A j \in 1..(n - 1) : ~r.outcomes[j]
              /\ r.pc = "retrieve" => \A j \in 1..n : ~r.outcomes[j]
              /\ (r.pc = "found" \/ (r.pc = "done" /\ r.status = 200)) =>
                    /\ n > 0
                    /\ r.outcomes[n]
                    /\ r.call.idx = r.i
                    /\ r.order[r.i].UUID = r.contacted[n]
                    /\ r.img = r.call.resp.body
                    /\ r.pc = "done" => r.body = r.call.resp.body
              /\ r.pc = "done" => (r.status = 404 <=> allFailed)
              /\ r.pc = "done" => r.status \in {200, 404}

\* a read answered with the bytes of the second peer contacted, after the
\* first failed, with myself between the two in read_order
C4_Witness ==
    \E k \in Readers :
        /\ rq[k].pc = "done"
        /\ rq[k].via = "cluster"
        /\ rq[k].status = 200
        /\ rq[k].outcomes = <<FALSE, TRUE>>
        /\ rq[k].order[2].UUID = myself.UUID
        /\ rq[k].body = BlobBytes(image, rq[k].size)

\* the requests that have called n.RetrieveImage
Called == {k \in Readers : rq[k].call.idx > 0}

\* the list element the last call of request k was made on
CalledOn(k) == rq[k].order[rq[k].call.idx]

(***************************************************************************)
(* C5 (as amended).  Node.RetrieveImage at time t: on a transport error it *)
(* sets last_failed = t, returns an error and changes nothing else; on any *)
(* HTTP response, whatever its status, it sets last_seen = t and changes   *)
(* nothing else; it returns the response body exactly when the status is   *)
(* "200 OK", and an error (NotFound) on every other status, the other 2xx  *)
(* included.  It never changes writeable.                                  *)
(***************************************************************************)
C5_RetrieveImageLiveness ==
    \A k \in Called :
        LET c == rq[k].call
            before == CalledOn(k)
        IN  /\ c.t \in 1..now
            /\ c.resp.err =>
                  /\ c.n = [before EXCEPT !.LastFailed = c.t]
                  /\ c.err
                  /\ c.body = NoBody
            /\ ~c.resp.err =>
                  /\ c.n = [before EXCEPT !.LastSeen = c.t]
                  /\ c.resp.status = 200 => (~c.err /\ c.body = c.resp.body)
                  /\ c.resp.status # 200 => (c.err /\ c.body = NoBody)
            /\ c.n.Writeable = before.Writeable

\* a call answered with a status other than 200: an error is returned and
\* the node is marked seen
C5_Witness ==
    \E k \in Called :
        /\ ~rq[k].call.resp.err
        /\ rq[k].call.resp.status = 404
        /\ rq[k].call.err
        /\ rq[k].call.n.LastSeen = rq[k].call.t
        /\ rq[k].call.n.LastSeen > CalledOn(k).LastSeen

Is2xx(status) == status \in 200..299

\* C5 as stated: a 2xx response marks the node seen and its body is
\* returned; a non-2xx response is an error and does not mark the node seen
C5_SeenOn2xxOnly ==
    \A k \in Called :
        LET c == rq[k].call
            before == CalledOn(k)
        IN  /\ c.resp.err =>
                  /\ c.n.LastFailed = c.t
                  /\ c.err
                  /\ c.n.LastSeen = before.LastSeen
            /\ (~c.resp.err /\ Is2xx(c.resp.status)) =>
                  /\ c.n.LastSeen = c.t
                  /\ ~c.err
                  /\ c.body = c.resp.body
            /\ (~c.resp.err /\ ~Is2xx(c.resp.status)) =>
                  /\ c.err
                  /\ c.n.LastSeen = before.LastSeen
            /\ c.n.Writeable = before.Writeable

\* the step is one of request k in the read-through branch
ReadThroughStep(k) ==
    /\ rq[k].pc \in {"retrieve", "found"}
    /\ rq'[k] # rq[k]

(***************************************************************************)
(* C6.  Read-through: a request served by fetching from a peer, on a node  *)
(* that holds neither the rendition nor the full-size blob, is answered    *)
(* with the peer's bytes, and no step of it writes under the upload        *)
(* directory: every file is after the step as it was before, and the       *)
(* full-size path of the hash is absent when the request is answered,      *)
(* however many such reads came before.                                    *)
(***************************************************************************)
C6_ReadThroughWritesNothing ==
    [][\A k \in Readers :
          ReadThroughStep(k) =>
              /\ disk' = disk
              /\ (rq'[k].pc = "done" /\ rq'[k].status = 200) =>
                    /\ rq'[k].body = rq[k].call.resp.body
                    /\ rq'[k].body = BlobBytes(image, rq[k].size)
                    /\ disk'[FullPath(image)] = Absent
                    /\ disk'[SizedPath(image, rq[k].size)] = Absent]_vars

\* a read answered with a peer's bytes, after an earlier read-through of the
\* other size whose bytes are in the blob cache; the full-size path is absent
C6_Witness ==
    \E k \in Readers :
        /\ rq[k].pc = "done"
        /\ rq[k].via = "cluster"
        /\ rq[k].status = 200
        /\ rq[k].body = BlobBytes(image, rq[k].size)
        /\ \E size \in Sizes :
              size # rq[k].size /\ mc[MemcacheKey(image, size)] # Absent
        /\ disk[FullPath(image)] = Absent

\* request k holds an output image of its own, made by the codec, and has
\* not finished writing it to the output file
Encoding(k) ==
    \/ rq[k].pc = "result" /\ rq[k].result.Success /\ ~rq[k].result.Magick
    \/ rq[k].pc = "encode"

(***************************************************************************)
(* C7.  Single-flight resize: of the concurrent read requests for the same *)
(* (hash, size, ext) on a node that holds the full-size blob, at most one  *)
(* has a resize/encode of the output file in flight at any time; the       *)
(* others serve the file the winner wrote and do not write it themselves.  *)
(***************************************************************************)
C7_SingleFlightResize ==
    \A k1, k2 \in Readers :
        (k1 # k2 /\ rq[k1].size = rq[k2].size) => ~(Encoding(k1) /\ Encoding(k2))

Renditions == Sizes \ {"full"}

(***************************************************************************)
(* C8.  No partial rendition is ever visible: in every reachable state a   *)
(* rendition file that exists holds a completed encode, and no reader has  *)
(* read, served or put in the blob cache an empty or truncated rendition.  *)
(***************************************************************************)
C8_NoPartialRendition ==
    /\ \A size \in Renditions :
          /\ disk[SizedPath(image, size)] \in {Absent, Encoded(image, size)}
          /\ mc[MemcacheKey(image, size)] \in {Absent, Encoded(image, size)}
    /\ \A k \in Readers :
          rq[k].size \in Renditions =>
              /\ rq[k].img \in {NoBody, Encoded(image, rq[k].size)}
              /\ rq[k].body \in {NoBody, Encoded(image, rq[k].size)}

(***************************************************************************)
(* C9.  Rendition caching: a request that arrives after a GET for the same *)
(* (hash, size, ext) was answered successfully by a resize is not          *)
(* submitted to the resize pool, does not have the codec invoked, and is   *)
(* answered with the same bytes.                                           *)
(***************************************************************************)
C9_RenditionCaching ==
    \A k \in Readers :
        rq[k].late =>
            /\ rq[k].pc \notin {"submit", "result", "encode", "encoded"}
            /\ ~rq[k].result.codec
            /\ rq[k].pc = "done" =>
                  /\ rq[k].status = 200
                  /\ rq[k].body = Encoded(image, rq[k].size)

(***************************************************************************)
(* C10.  Ring membership invariant: after the config-load AddNeighbor      *)
(* calls and any interleaving of announces, two of them for the same       *)
(* unknown uuid and one for the local node's own uuid included, the peers  *)
(* of the ring have distinct uuids and the local node is not among them.   *)
(***************************************************************************)
C10_RingMembership ==
    /\ \A i, j \in 1..Len(neighbors) :
          i # j => neighbors[i].UUID # neighbors[j].UUID
    /\ \A i \in 1..Len(neighbors) : neighbors[i].UUID # myself.UUID

(***************************************************************************)
(* C11.  Round trip across nodes: once the upload of the image at a peer   *)
(* has been answered, every GET of the full-size image that the local node *)
(* then receives is answered 200 with exactly the uploaded bytes, whether  *)
(* the local node holds a replica or reads through to a peer.              *)
(***************************************************************************)
C11_RoundTrip ==
    \A k \in ReadThroughs :
        (rq[k].pc = "done" /\ rq[k].after /\ rq[k].size = "full")
            => /\ rq[k].status = 200
               /\ rq[k].body = FullBytes(image)

(***************************************************************************)
(* C12.  In every ring state and for every hash, read_order(hash) holds    *)
(* the uuid of the local node and of every peer exactly once, in the order *)
(* in which a clockwise walk from the smallest virtual key >= hash (from   *)
(* the smallest key of all when there is none) first meets a key of each   *)
(* node, the keys of a node being the 16 digests of its uuid followed by   *)
(* the index, equal keys ordered by uuid; and a second query on a ring of  *)
(* the same members gives the sequence the first one gave: the order that  *)
(* retrieveImage took is the order the ring gives now.                     *)
(***************************************************************************)
\* the ring keys of uuid u, each paired with u
VKeys(u) == {<<Sha1(KeyInput(u, i)), u>> : i \in 0..(REPLICAS - 1)}

\* p is met before q by the walk that starts at the smallest key >= h
Clockwise(h, p, q) ==
    \/ p[1] >= h /\ q[1] < h
    \/ (p[1] >= h <=> q[1] >= h) /\ PairLess(p, q)

\* the first key of each node that the walk from each hash meets
FirstKeys ==
    [h \in Hashes, u \in UUIDs |->
        CHOOSE p \in VKeys(u) : \A q \in VKeys(u) \ {p} : Clockwise(h, p, q)]

PlacementOf(me, ns, h) ==
    LET order == UUIDSeq(ReadOrderOf(me, ns, h))
    IN  /\ UUIDsOf(ReadOrderOf(me, ns, h)) = MembersOf(me, ns)
        /\ \A i, j \in 1..Len(order) :
              i < j => /\ order[i] # order[j]
                       /\ Clockwise(h, FirstKeys[h, order[i]], FirstKeys[h, order[j]])

C12_ReadOrderPlacement ==
    /\ \A h \in Hashes : PlacementOf(myself, neighbors, h)
    /\ \A k \in ReadThroughs :
          (rq[k].pc = "retrieve" /\ UUIDsOf(rq[k].order) = Members)
              => UUIDSeq(rq[k].order) = UUIDSeq(ReadOrder(image))

\* retrieveImage has taken the read order of a ring of three members whose
\* keys are all below the hash, so that the walk wrapped around, and an
\* announce has since rewritten the record of a peer
C12_Witness ==
    /\ rq[1].pc = "retrieve"
    /\ Len(rq[1].order) = 3
    /\ rq[1].order # ReadOrder(image)
    /\ \A u \in Members : \A p \in VKeys(u) : p[1] < image

(***************************************************************************)
(* C13.  In every ring state and for every hash, write_order(hash) is the  *)
(* subsequence of read_order(hash) that keeps exactly the nodes whose      *)
(* record says writeable, in the same relative order; and an upload sends  *)
(* a stash to no peer whose record said read-only in the ring state its    *)
(* write order was taken from: every target it holds is writeable, and a   *)
(* step of its loop gives the blob to the next target and to no other      *)
(* peer.                                                                   *)
(***************************************************************************)
\* the elements of seq whose record says writeable, in the order of seq
Kept(seq) ==
    LET at == {i \in 1..Len(seq) : seq[i].Writeable}
    IN  [j \in 1..Cardinality(at) |->
            seq[CHOOSE i \in at : Cardinality({m \in at : m <= i}) = j]]

C14_StashStopsAtTarget ==
    /\ [](/\ Len(up.nodes) <= cfg.Replication - 1
          /\ \A i, j \in 1..Len(up.nodes) : i < j => up.nodes[i] # up.nodes[j]
          /\ \A i \in 1..Len(up.nodes) : up.nodes[i] # myself.UUID
          /\ \A i \in 1..Len(up.W) : up.W[i].UUID # myself.UUID)
    /\ [][/\ (up.pc = "stash" /\ up'.i # up.i)
              => /\ Len(up.nodes) < cfg.Replication - 1
                 /\ disk' = disk
                 /\ up'.pc = "stash"
          /\ (up.pc = "stash" /\ up'.pc # "stash")
              => /\ up'.pc = "done"
                 /\ up'.status = 200
                 /\ up'.nodes = up.nodes
                 /\ \/ Len(up.nodes) = cfg.Replication - 1
                    \/ up.i > Len(up.W)]_vars

\* an upload with a target of two copies was answered after its first
\* stash succeeded, with a target left that it never contacted
C14_Witness ==
    /\ up.pc = "done"
    /\ cfg.Replication = 2
    /\ Len(up.nodes) = 1
    /\ up.i = 2
    /\ Len(up.W) = 2
    /\ up.hash \notin peerDisk[up.W[2].UUID]

(***************************************************************************)
(* C15.  Peer stash rejection: while the local node's writeable flag is    *)
(* false, no step of a stash request changes a file of the upload          *)
(* directory (the directory is made in the step that creates the file)     *)
(* and the request is answered 400; on a writeable node a POST that        *)
(* carries the image is answered 200 "ok" with the body stored at the      *)
(* full-size path of its hash.                                             *)
(***************************************************************************)
C15_StashRejection ==
    [][/\ (~myself.Writeable /\ st' # st)
            => /\ disk' = disk
               /\ st'.pc = "done" => st'.status = 400
       /\ (/\ myself.Writeable
           /\ st.pc # "done" /\ st'.pc = "done"
           /\ st'.method = "POST" /\ st'.hasImage)
            => /\ st'.status = 200
               /\ st'.text = "ok"
               /\ disk'[FullPath(image)] = FullBytes(image)]_vars

(***************************************************************************)
(* C16.  A read request whose hash segment is not exactly 40 hexadecimal   *)
(* characters is rejected in the step that parses it (404 "bad hash"):     *)
(* it never gets to the blob cache, to a path derived from the segment or  *)
(* to a peer.                                                              *)
(***************************************************************************)
C16_MalformedHashRejected ==
    [][\A k \in Readers, seg \in Segments, size \in Sizes :
          (~WellFormed(seg) /\ ServeParse(k, seg, size))
              => /\ rq'[k].pc = "done"
                 /\ rq'[k].via = "parse"
                 /\ rq'[k].status = 404]_vars

(***************************************************************************)
(* C17.  Every read request answered with an image (from the blob cache,   *)
(* from the rendition on disk, from a peer, from what magick wrote or from *)
(* the in-process encode) carries the Content-Type of the extension it     *)
(* asked for: image/jpeg for jpg, image/png for png, image/png for gif;    *)
(* never an empty or another one.                                          *)
(***************************************************************************)
C17_ContentTypeOfExtension ==
    LET expected == IF extension = <<".", "j", "p", "g">> THEN "image/jpeg"
                    ELSE "image/png"
    IN  \A k \in Readers :
            (rq[k].pc = "done" /\ rq[k].status = 200) => rq[k].ctype = expected

(***************************************************************************)
(* C18.  An upload whose directory or full-size file cannot be made or     *)
(* written fails with a 5xx response: the step in which the write fails    *)
(* ends the request with a status of 500 or above, so that no JSON         *)
(* document follows and nothing is stashed for it.                         *)
(***************************************************************************)
C18_UploadDiskErrorFatal ==
    [][\A h \in Hashes :
          AddHandlerBeginDiskError(h) => (up'.pc = "done" /\ up'.status >= 500)]_vars

(***************************************************************************)
(* C19.  A read request whose rendition file cannot be opened or written   *)
(* after the resize succeeded is still answered 200 with the resized       *)
(* image, and caching is skipped: the step that answers it leaves the      *)
(* files and the blob cache as they were, and no request is ever answered  *)
(* from the blob cache or from the file with an empty body.                *)
(***************************************************************************)
C19_RenditionWriteErrorSkipsCache ==
    /\ [](\A k \in Readers :
            (rq[k].pc = "done" /\ rq[k].via \in {"cache", "file"})
                => rq[k].body # Empty)
    /\ [][\A k \in Readers :
            (rq[k].pc = "nofile" /\ rq'[k].pc = "done")
                => /\ rq'[k].status = 200
                   /\ rq'[k].body = Encoded(image, rq[k].size)
                   /\ mc' = mc
                   /\ disk' = disk]_vars

(***************************************************************************)
(* C20.  When the resize pool answers a read request with success = false, *)
(* the next step of the request answers it with 500: the output image is   *)
(* not dereferenced, no rendition file is made and nothing is set in the   *)
(* blob cache.                                                             *)
(***************************************************************************)
C20_ResizeFailureIs500 ==
    [][\A k \in Readers :
          (rq[k].pc = "result" /\ ~rq[k].result.Success /\ rq'[k] # rq[k])
              => /\ rq'[k].pc = "done"
                 /\ rq'[k].status = 500
                 /\ rq'[k].via # "panic"
                 /\ disk' = disk
                 /\ mc' = mc]_vars

\* the record new is the record old after an announce with the form at
\* time t: the fields the form carries are the form's, LastSeen is t and
\* the rest is as it was
UpdatedBy(old, new, form, t) ==
    /\ new.UUID = old.UUID
    /\ new.Nickname = (IF form.nickname # "" THEN form.nickname ELSE old.Nickname)
    /\ new.Location = (IF form.location # "" THEN form.location ELSE old.Location)
    /\ new.BaseUrl = (IF form.base_url # "" THEN form.base_url ELSE old.BaseUrl)
    /\ new.Writeable =
          (IF form.writeable # "" THEN form.writeable = "true" ELSE old.Writeable)
    /\ new.LastSeen = t
    /\ new.LastFailed = old.LastFailed

(***************************************************************************)
(* C21.  The write-back of an announce for a known uuid changes the record *)
(* of that uuid only: the fields the request carries become the request's, *)
(* LastSeen becomes now, and the fields it does not carry and LastFailed   *)
(* stay as they are in the ring; the other peers' records, the local       *)
(* node's record and the number of peers are unchanged.  The write-back of *)
(* an announce for a uuid that is unknown appends exactly one record, of   *)
(* that uuid and with LastSeen = now, and changes no record there was.     *)
(***************************************************************************)
C21_AnnounceFrame ==
    [][\A k \in Announcers :
          /\ AnnounceHandlerUpdate(k) =>
                /\ myself' = myself
                /\ Len(neighbors') = Len(neighbors)
                /\ \A i \in 1..Len(neighbors) :
                      IF neighbors[i].UUID = ann[k].form.uuid
                      THEN UpdatedBy(neighbors[i], neighbors'[i], ann[k].form, now)
                      ELSE neighbors'[i] = neighbors[i]
          /\ (AnnounceHandlerAdd(k) /\ ~FindNeighborByUUID(ann[k].form.uuid).ok) =>
                /\ myself' = myself
                /\ Len(neighbors') = Len(neighbors) + 1
                /\ SubSeq(neighbors', 1, Len(neighbors)) = neighbors
                /\ neighbors'[Len(neighbors')].UUID = ann[k].form.uuid
                /\ neighbors'[Len(neighbors')].LastSeen = now]_vars

(***************************************************************************)
(* C22.  The mutations of a peer's record are serialized: every step that  *)
(* changes the record the ring holds for a peer P is one operation applied *)
(* to the record the ring held just before the step, either the stash to P *)
(* of the upload (Stash on the ring's record, with the answer the POST     *)
(* got) or the write-back of an announce from P (the request's fields and  *)
(* LastSeen on the ring's record).  Then the record after the requests is  *)
(* the result of the operations in the order of these steps, and no update *)
(* is lost: a stash that took its copy of P before P's announce does not   *)
(* put the copy's Writeable and LastSeen back, and an announce that looked *)
(* P up before a failed stash does not undo the stash's mark.              *)
(***************************************************************************)
C22_SerializedMutations ==
    [][\A p \in Peers :
          (p \in Members /\ RingNodeAfter(p) # RingNode(p)) =>
              \/ /\ StashStepTo(p, up.hash)
                 /\ RingNodeAfter(p) =
                       Stash(RingNode(p), StashRoundTrip(p, up.hash), now).n
              \/ \E k \in Announcers :
                    /\ AnnounceHandlerUpdate(k)
                    /\ ann[k].form.uuid = p
                    /\ RingNodeAfter(p) =
                          Announced(RingNode(p), ann[k].form, now)]_vars

\* no element of the sequence occurs twice
Distinct(seq) == \A a, b \in 1..Len(seq) : a # b => seq[a] # seq[b]

(***************************************************************************)
(* C23.  Peer-facing handlers never fan out.  A step of the local node's   *)
(* handling of POST /stash/, GET /retrieve/ or GET /retrieve_info/ calls   *)
(* no peer: it changes nothing of the read requests, the upload, the peer  *)
(* records or the peers' disks.  A peer answers a retrieve with 200 only   *)
(* from its own disk.  So a read calls each peer at most once and never    *)
(* the local node, and an upload stashes to each peer at most once and     *)
(* never to the local node.                                                *)
(***************************************************************************)
C23_NoFanOut ==
    /\ [](/\ \A k \in Readers :
                /\ Distinct(rq[k].contacted)
                /\ \A a \in 1..Len(rq[k].contacted) :
                      rq[k].contacted[a] # myself.UUID
          /\ \A k \in Called :
                rq[k].call.resp.status = 200 => image \in peerDisk[CalledOn(k).UUID]
          /\ Distinct(UUIDSeq(up.W))
          /\ myself.UUID \notin UUIDsOf(up.W)
          /\ Distinct(up.nodes))
    /\ [][st' # st =>
            UNCHANGED <<rq, mc, up, ann, myself, neighbors, peerUp, peerWriteable,
                        peerDisk>>]_vars

\* a read was answered by the second peer it called, the first not holding
\* the image; an upload has since stashed to both peers, and a peer's
\* retrieve is being answered from the local disk
C23_Witness ==
    /\ \E k \in Readers :
          /\ rq[k].pc = "done"
          /\ rq[k].via = "cluster"
          /\ Len(rq[k].contacted) = 2
    /\ up.pc = "done"
    /\ Len(up.nodes) = 2
    /\ st.pc = "done"
    /\ st.text = "image"

(***************************************************************************)
(* C24.  Every read request that has sent its ResizeRequest on the resize  *)
(* queue eventually gets the ResizeResponse and is answered, the workers   *)
(* and the handlers being fair: the send on the queue followed by the      *)
(* receive on the unbuffered reply channel never waits forever, whether    *)
(* the worker replies before or after the handler is in its receive.       *)
(***************************************************************************)
C24_ResizeCompletes ==
    \A k \in Readers : (rq[k].pc = "sent") ~> (rq[k].pc = "done")

(***************************************************************************)
(* C25.  For every member of the ring, HashKeys returns exactly REPLICAS   *)
(* keys, the i-th the digest of the uuid followed by the decimal form of i *)
(* (i = 0..REPLICAS-1); and two members with distinct uuids share no ring  *)
(* key input: the uuid of one followed by the decimal form of i is never   *)
(* the uuid of the other followed by the decimal form of j.                *)
(***************************************************************************)
C25_HashKeysDistinctInputs ==
    /\ \A u \in Members :
          /\ Len(HashKeys(RingNode(u))) = REPLICAS
          /\ \A i \in 0..(REPLICAS - 1) :
                HashKeys(RingNode(u))[i + 1] = Sha1(u \o Dec(i))
    /\ \A u, v \in Members :
          u # v => \A i, j \in 0..(REPLICAS - 1) : u \o Dec(i) # v \o Dec(j)

====
